---- MODULE Spec2Model ----
(***************************************************************************)
(* Article-check worker: the check lifecycle manager (QueueManager) over   *)
(* the PR_STATE key-value store, and the webhook handler that drives it.   *)
(*                                                                         *)
(* Spec      one QueueManager call at a time, each running to completion.  *)
(* SpecConc  webhook handler invocations whose store operations interleave *)
(*           (every await is a point where another invocation may run).    *)
(* SpecLive  SpecConc with the fairness of the worker runtime.             *)
(* SpecRate  the rate limiter of the quality-check runner.                 *)
(* SpecHook  webhook requests to the store-based and queue-based handlers. *)
(* SpecShared    check records and the rate-limit counter in one store.    *)
(* SpecRateConc  runs of the rate-limited runner whose gets and puts of    *)
(*               the counter interleave.                                   *)
(* SpecRun       a handler invocation with the steps of its runner.        *)
(* SpecQueue     the queue-based handler and the consumer of its queue.    *)
(* SpecFrame     QueueManager calls for several pull requests.             *)
(* SpecOwn       SpecConc with a comment per invocation and no overlap of  *)
(*               enqueueCheck calls.                                       *)
(***************************************************************************)
EXTENDS Integers, Sequences, FiniteSets, TLC

VARIABLES
    now,        \* Date.now(), in milliseconds
    PR_STATE,   \* env.PR_STATE: key -> stored JSON text, or Null
    ret,        \* what the call or request that has just returned read and
                \* returned (NoCall once anything else has happened)
    hand,       \* SpecConc: the webhook handler invocations (SpecRateConc:
                \* the runs of validateWithOpenRouter)
    swp,        \* SpecConc: the cleanOldChecks() each invocation started
    PR_QUEUE    \* env.PR_QUEUE: the jobs sent and not yet delivered

vars == <<now, PR_STATE, ret, hand, swp, PR_QUEUE>>

----------------------------------------------------------------------------
(* Bounds of the model *)

\* The instants at which the clock is read: their differences reach the
\* boundaries of the cooldown (300000 ms) and of the staleness threshold
\* (3600000 ms) from both sides.
Instants == {0, 1, 200000, 300000, 3600000, 3600001}

\* The instants of SpecConc
ConcInstants == {0, 3600001}

\* Concurrent invocations of the webhook handler
Handlers == {1, 2}

\* (repository, prNumber) pairs, in the lexicographic order of their keys
Targets == << <<"acme/repo", 42>>, <<"octo/site", 42>> >>

CommentIds == {7}

Results == {"", "LGTM"}

\* The instants of SpecRate: their differences reach the 60000 ms window
\* from both sides
RateInstants == {0, 1, 60000, 60001, 120001}

\* The instants of SpecShared: a counter and a record written at the first
\* two are more than an hour old at the last
SharedInstants == {0, 1, 3600001}

\* The instant of SpecRateConc after 0: the start of the next window
RateConcInstants == {60000}

\* The article and the analysis of the runs of SpecRateConc: five such
\* articles and three such analyses fit into a window
RunContentLengths == {4}

RunAnalysisLengths == {2000}

\* The (repository, prNumber) pairs of SpecFrame: pairs that differ in one
\* part only, and two whose parts read the same when written side by side
FrameTargets ==
    {<<"acme/repo", 42>>, <<"acme/repo4", 42>>, <<"acme/repo4", 2>>}

\* The instant of SpecFrame after 0: past the cooldown
FrameInstants == {300000}

\* The invocation of SpecRun (its sweep runs beside it)
RunHandlers == {1}

\* The articles and analyses of SpecRun: the longer of each reaches its
\* budget alone
ArticleLengths == {4, 40000}

ReplyLengths == {2000, 8000}

\* Lengths of the article texts sent for review (4 characters a token)
ContentLengths == {4, 19999, 40000}

\* Jobs PR_QUEUE holds at most before one is delivered
MaxQueue == 2

\* Lengths of the analyses that come back (two of the middle one reach the
\* output budget, the longest reaches it alone, the shortest fits after
\* another)
AnalysisLengths == {2000, 3999, 8000}

----------------------------------------------------------------------------
(* Values *)

\* What PR_STATE.get resolves to for a key that is not stored
Null == [isNull |-> TRUE]

\* An object is the function from its defined properties to their values;
\* a property that is missing and one that holds undefined read the same.
EmptyObject == [p \in {} |-> TRUE]

HasProp(o, p) == p \in DOMAIN o

SetProp(o, p, v) == [q \in DOMAIN o \cup {p} |-> IF q = p THEN v ELSE o[q]]

\* JSON.stringify writes exactly the defined properties of the object, and
\* JSON.parse reads them back; JSON.parse(null) is null.
JSONStringify(o) == [p \in DOMAIN o |-> o[p]]

JSONParse(text) == IF text = Null THEN Null ELSE [p \in DOMAIN text |-> text[p]]

\* JavaScript truthiness of an optional string argument
Truthy(args, p) == HasProp(args, p) /\ args[p] # ""

\* Math.ceil(a / b) for b > 0
CeilDiv(a, b) == -((-a) \div b)

StartsWith(s, prefix) ==
    Len(s) >= Len(prefix) /\ SubSeq(s, 1, Len(prefix)) = prefix

Statuses == {"pending", "processing", "completed", "failed"}

\* PullRequestJob: commentId is optional (the jobs of the first target come
\* with and without one)
Jobs ==
    {[repository |-> Targets[i][1], prNumber |-> Targets[i][2]] :
        i \in 1..Len(Targets)}
    \cup
    {[repository |-> Targets[1][1], prNumber |-> Targets[1][2], commentId |-> c] :
        c \in CommentIds}

\* Arguments of updateCheckStatus after the job: result is optional
StatusArgs ==
    {[status |-> s] : s \in Statuses}
    \cup {[status |-> s, result |-> r] : s \in Statuses, r \in Results}

----------------------------------------------------------------------------
(* QueueManager: pure parts *)

getQueueKey_noSeparator(job) ==
    "queue:" \o job.repository \o ToString(job.prNumber)

getQueueKey(job) ==
    "queue:" \o job.repository \o ":" \o ToString(job.prNumber)

\* The keys of the store, in the order PR_STATE.list returns them
StoreKeyList ==
    [i \in 1..Len(Targets) |->
        getQueueKey([repository |-> Targets[i][1], prNumber |-> Targets[i][2]])]
    \o <<"rate_limit">>

StoreKeys == {StoreKeyList[i] : i \in 1..Len(StoreKeyList)}

QueueKeys == {k \in StoreKeys : StartsWith(k, "queue:")}

cooldownPeriod == 5 * 60 * 1000

staleAge == 3600000

InProgress_pendingOnly(check) == check.status = "pending"

InProgress(check) ==
    check.status # "completed" /\ check.status # "failed"

InCooldown_inclusive(check, t) == t - check.timestamp <= cooldownPeriod

InCooldown(check, t) == t - check.timestamp < cooldownPeriod

waitTime_floor(check, t) == (cooldownPeriod - (t - check.timestamp)) \div 1000

waitTime(check, t) == CeilDiv(cooldownPeriod - (t - check.timestamp), 1000)

newCheck_noCommentId(job, t) ==
    [repository |-> job.repository,
     prNumber |-> job.prNumber,
     timestamp |-> t,
     status |-> "pending"]

newCheck(job, t) ==
    [repository |-> job.repository,
     prNumber |-> job.prNumber,
     timestamp |-> t,
     status |-> "pending"]
    @@ (IF HasProp(job, "commentId")
        THEN [commentId |-> job.commentId] ELSE EmptyObject)

\* enqueueCheck after its get resolved to `existing`, at time t: what it
\* returns, and the text it puts (put = FALSE: it returns without a write)
EnqueueOutcome(existing, job, t) ==
    IF existing # Null /\ InProgress(JSONParse(existing))
    THEN [isNew |-> FALSE, put |-> FALSE,
          message |-> [kind |-> "in_progress",
                       status |-> JSONParse(existing).status]]
    ELSE IF existing # Null /\ InCooldown(JSONParse(existing), t)
    THEN [isNew |-> FALSE, put |-> FALSE,
          message |-> [kind |-> "cooldown",
                       waitTime |-> waitTime(JSONParse(existing), t)]]
    ELSE [isNew |-> TRUE, put |-> TRUE,
          text |-> JSONStringify(newCheck(job, t)),
          message |-> [kind |-> "started"]]

UpdatedCheck_alwaysResult(existing, args) ==
    LET check == JSONParse(existing)
        withStatus == [check EXCEPT !.status = args.status]
    IN  JSONStringify(SetProp(withStatus, "result",
                              IF HasProp(args, "result") THEN args.result
                              ELSE ""))

UpdatedCheck_refreshTimestamp(existing, args) ==
    LET check == JSONParse(existing)
        withStatus == [check EXCEPT !.status = args.status, !.timestamp = now]
    IN  JSONStringify(IF Truthy(args, "result")
                      THEN SetProp(withStatus, "result", args.result)
                      ELSE withStatus)

\* updateCheckStatus after its get resolved to a stored text: the text it puts
UpdatedCheck(existing, args) ==
    LET check == JSONParse(existing)
        withStatus == [check EXCEPT !.status = args.status]
    IN  JSONStringify(IF Truthy(args, "result")
                      THEN SetProp(withStatus, "result", args.result)
                      ELSE withStatus)

NotFound == "QueueManager: Check not found in queue"

UpdateOutcome_upsert(existing, args) ==
    IF existing = Null
    THEN [error |-> NotFound, put |-> TRUE, text |-> [status |-> args.status]]
    ELSE [error |-> "none", put |-> TRUE,
          text |-> [existing EXCEPT !.status = args.status]]

\* updateCheckStatus after its get resolved to `existing`: the error it
\* throws, or the text it puts
UpdateOutcome(existing, args) ==
    IF existing = Null
    THEN [error |-> NotFound, put |-> FALSE]
    ELSE [error |-> "none", put |-> TRUE,
          text |-> UpdatedCheck(existing, args)]

ListKeys_anyPrefix(store, prefix) ==
    SelectSeq(StoreKeyList, LAMBDA k : store[k] # Null)

\* PR_STATE.list({prefix}): the stored keys with the prefix, in key order
ListKeys(store, prefix) ==
    SelectSeq(StoreKeyList,
              LAMBDA k : store[k] # Null /\ StartsWith(k, prefix))

IsStale_inclusive(check, oneHourAgo) == check.timestamp <= oneHourAgo

IsStale_reversed(check, oneHourAgo) == check.timestamp > oneHourAgo

IsStale_twoHours(check, oneHourAgo) == check.timestamp < oneHourAgo - staleAge

IsStale(check, oneHourAgo) == check.timestamp < oneHourAgo

\* The loop of cleanOldChecks over keys[i..], run without interruption
RECURSIVE CleanLoop(_, _, _, _)
CleanLoop(store, keys, i, oneHourAgo) ==
    IF i > Len(keys) THEN store
    ELSE LET check == JSONParse(store[keys[i]])
         IN  CleanLoop(IF IsStale(check, oneHourAgo)
                       THEN [store EXCEPT ![keys[i]] = Null] ELSE store,
                       keys, i + 1, oneHourAgo)

----------------------------------------------------------------------------
(* Rate limiter: pure parts *)

RATE_LIMITS ==
    [requestsPerMinute |-> 5,
     inputTokensPerMinute |-> 10000,
     outputTokensPerMinute |-> 2000]

windowLength == 60000

\* Math.ceil(text.length / 4), for a text of the given length
estimateTokenCount(length) == CeilDiv(length, 4)

RequestLimitError == "Rate limit exceeded: Too many requests per minute"

InputLimitError == "Rate limit exceeded: Too many input tokens per minute"

OutputLimitError == "Rate limit exceeded: Too many output tokens per minute"

\* getRateLimitState after its get resolved to `text`, at time t
getRateLimitState(text, t) ==
    IF text = Null
    THEN [requestCount |-> 0, inputTokens |-> 0, outputTokens |-> 0,
          timestamp |-> t]
    ELSE JSONParse(text)

WindowElapsed_strict(state, t) == t - state.timestamp > windowLength

WindowElapsed(state, t) == t - state.timestamp >= windowLength

AfterReset_keepsOutput(state, t) ==
    IF WindowElapsed(state, t)
    THEN [requestCount |-> 0, inputTokens |-> 0,
          outputTokens |-> state.outputTokens, timestamp |-> t]
    ELSE state

\* checkRateLimit: the loaded state after the reset, if one is due
AfterReset(state, t) ==
    IF WindowElapsed(state, t)
    THEN [requestCount |-> 0, inputTokens |-> 0, outputTokens |-> 0,
          timestamp |-> t]
    ELSE state

CheckOutcome_inputInclusive(text, tokenCount, t) ==
    LET state == AfterReset(getRateLimitState(text, t), t)
    IN  IF state.requestCount >= RATE_LIMITS.requestsPerMinute
        THEN [error |-> RequestLimitError, put |-> FALSE]
        ELSE IF state.inputTokens + tokenCount > RATE_LIMITS.inputTokensPerMinute
        THEN [error |-> InputLimitError, put |-> FALSE]
        ELSE [error |-> "none", put |-> TRUE,
              text |-> JSONStringify(
                  [state EXCEPT !.requestCount = @ + 1,
                                !.inputTokens = @ + tokenCount])]

CheckOutcome_putsBeforeCheck(text, tokenCount, t) ==
    LET state == AfterReset(getRateLimitState(text, t), t)
    IN  IF state.requestCount >= RATE_LIMITS.requestsPerMinute
        THEN [error |-> RequestLimitError, put |-> TRUE,
              text |-> JSONStringify(state)]
        ELSE IF state.inputTokens + tokenCount >= RATE_LIMITS.inputTokensPerMinute
        THEN [error |-> InputLimitError, put |-> TRUE,
              text |-> JSONStringify(state)]
        ELSE [error |-> "none", put |-> TRUE,
              text |-> JSONStringify(
                  [state EXCEPT !.requestCount = @ + 1,
                                !.inputTokens = @ + tokenCount])]

\* checkRateLimit(tokenCount) after its get resolved to `text`, at time t:
\* the error it throws, or the text it puts
CheckOutcome(text, tokenCount, t) ==
    LET state == AfterReset(getRateLimitState(text, t), t)
    IN  IF state.requestCount >= RATE_LIMITS.requestsPerMinute
        THEN [error |-> RequestLimitError, put |-> FALSE]
        ELSE IF state.inputTokens + tokenCount >= RATE_LIMITS.inputTokensPerMinute
        THEN [error |-> InputLimitError, put |-> FALSE]
        ELSE [error |-> "none", put |-> TRUE,
              text |-> JSONStringify(
                  [state EXCEPT !.requestCount = @ + 1,
                                !.inputTokens = @ + tokenCount])]

OutputOutcome_withReset(text, outputTokensThisMinute, t) ==
    LET loaded == AfterReset(getRateLimitState(text, t), t)
        state == [loaded EXCEPT !.outputTokens = @ + outputTokensThisMinute]
    IN  IF state.outputTokens >= RATE_LIMITS.outputTokensPerMinute
        THEN [error |-> OutputLimitError, put |-> FALSE]
        ELSE [error |-> "none", put |-> TRUE, text |-> JSONStringify(state)]

\* validateWithOpenRouter, once the analysis is in: the output tokens are
\* added to the state loaded from `text`; the error thrown, or the text put
OutputOutcome(text, outputTokensThisMinute, t) ==
    LET loaded == getRateLimitState(text, t)
        state == [loaded EXCEPT !.outputTokens = @ + outputTokensThisMinute]
    IN  IF state.outputTokens >= RATE_LIMITS.outputTokensPerMinute
        THEN [error |-> OutputLimitError, put |-> FALSE]
        ELSE [error |-> "none", put |-> TRUE, text |-> JSONStringify(state)]

----------------------------------------------------------------------------
(* Spec: QueueManager calls, one at a time *)

NoCall == [op |-> "none"]

IdleHandler == [pc |-> "idle"]

IdleSweep == [pc |-> "idle"]

Init ==
    /\ now = 0
    /\ PR_STATE = [k \in StoreKeys |-> Null]
    /\ ret = NoCall
    /\ hand = [h \in Handlers |-> IdleHandler]
    /\ swp = [h \in Handlers |-> IdleSweep]
    /\ PR_QUEUE = <<>>

Tick(t) ==
    /\ t > now
    /\ now' = t
    /\ ret' = NoCall
    /\ UNCHANGED <<PR_STATE, hand, swp, PR_QUEUE>>

\* What a call read under its key: "none", or the status of the record
Read(existing) == IF existing = Null THEN "none" ELSE JSONParse(existing).status

EnqueueCheck(job) ==
    LET queueKey == getQueueKey(job)
        existing == PR_STATE[queueKey]
        out == EnqueueOutcome(existing, job, now)
    IN  /\ PR_STATE' = IF out.put
                       THEN [PR_STATE EXCEPT ![queueKey] = out.text]
                       ELSE PR_STATE
        /\ ret' = [op |-> "enqueueCheck", job |-> job,
                   read |-> Read(existing),
                   isNew |-> out.isNew, message |-> out.message,
                   error |-> "none"]
        /\ UNCHANGED <<now, hand, swp, PR_QUEUE>>

UpdateCheckStatus(job, args) ==
    LET queueKey == getQueueKey(job)
        out == UpdateOutcome(PR_STATE[queueKey], args)
    IN  /\ PR_STATE' = IF out.put
                       THEN [PR_STATE EXCEPT ![queueKey] = out.text]
                       ELSE PR_STATE
        /\ ret' = [op |-> "updateCheckStatus", job |-> job, args |-> args,
                   error |-> out.error]
        /\ UNCHANGED <<now, hand, swp, PR_QUEUE>>

CleanOldChecks ==
    LET oneHourAgo == now - staleAge
        list == ListKeys(PR_STATE, "queue:")
    IN  /\ PR_STATE' = CleanLoop(PR_STATE, list, 1, oneHourAgo)
        /\ ret' = [op |-> "cleanOldChecks", list |-> list, error |-> "none"]
        /\ UNCHANGED <<now, hand, swp, PR_QUEUE>>

Next ==
    \/ \E t \in Instants : Tick(t)
    \/ \E job \in Jobs : EnqueueCheck(job)
    \/ \E job \in Jobs, args \in StatusArgs : UpdateCheckStatus(job, args)
    \/ CleanOldChecks

Spec == Init /\ [][Next]_vars

----------------------------------------------------------------------------
(* SpecRate: the rate limiter of validateWithOpenRouter, one call at a time *)

\* checkRateLimit(tokenCount, env); `read` is the state it loaded
CheckRateLimit(tokenCount) ==
    LET out == CheckOutcome(PR_STATE["rate_limit"], tokenCount, now)
    IN  /\ PR_STATE' = IF out.put
                       THEN [PR_STATE EXCEPT !["rate_limit"] = out.text]
                       ELSE PR_STATE
        /\ ret' = [op |-> "checkRateLimit", tokenCount |-> tokenCount,
                   read |-> getRateLimitState(PR_STATE["rate_limit"], now),
                   error |-> out.error]
        /\ UNCHANGED <<now, hand, swp, PR_QUEUE>>

\* The output-token accounting at the end of validateWithOpenRouter
RecordOutput(outputTokensThisMinute) ==
    LET out == OutputOutcome(PR_STATE["rate_limit"], outputTokensThisMinute, now)
    IN  /\ PR_STATE' = IF out.put
                       THEN [PR_STATE EXCEPT !["rate_limit"] = out.text]
                       ELSE PR_STATE
        /\ ret' = [op |-> "recordOutput",
                   tokenCount |-> outputTokensThisMinute,
                   read |-> getRateLimitState(PR_STATE["rate_limit"], now),
                   error |-> out.error]
        /\ UNCHANGED <<now, hand, swp, PR_QUEUE>>

NextRate ==
    \/ \E t \in RateInstants : Tick(t)
    \/ \E n \in ContentLengths : CheckRateLimit(estimateTokenCount(n))
    \/ \E n \in AnalysisLengths : RecordOutput(estimateTokenCount(n))

SpecRate == Init /\ [][NextRate]_vars

----------------------------------------------------------------------------
(* SpecShared: the check records and the rate-limit counter in one store *)

NextShared ==
    \/ \E t \in SharedInstants : Tick(t)
    \/ \E job \in Jobs : EnqueueCheck(job)
    \/ \E n \in ContentLengths : CheckRateLimit(estimateTokenCount(n))
    \/ CleanOldChecks

SpecShared == Init /\ [][NextShared]_vars

----------------------------------------------------------------------------
(* SpecFrame: QueueManager calls for several pull requests, and the rate *)
(* limiter, over one store                                              *)

FrameJobs ==
    {[repository |-> t[1], prNumber |-> t[2], commentId |-> c] :
        t \in FrameTargets, c \in CommentIds}

FrameArgs ==
    {[status |-> "processing"], [status |-> "completed", result |-> "LGTM"]}

\* The store before any call: no key holds a value
InitFrame ==
    /\ now = 0
    /\ PR_STATE = [k \in {getQueueKey(job) : job \in FrameJobs}
                          \cup {"rate_limit"} |-> Null]
    /\ ret = NoCall
    /\ hand = [h \in Handlers |-> IdleHandler]
    /\ swp = [h \in Handlers |-> IdleSweep]
    /\ PR_QUEUE = <<>>

NextFrame ==
    \/ \E t \in FrameInstants : Tick(t)
    \/ \E job \in FrameJobs : EnqueueCheck(job)
    \/ \E job \in FrameJobs, args \in FrameArgs : UpdateCheckStatus(job, args)
    \/ \E n \in RunContentLengths : CheckRateLimit(estimateTokenCount(n))

SpecFrame == InitFrame /\ [][NextFrame]_vars

----------------------------------------------------------------------------
(* SpecRateConc: concurrent runs of validateWithOpenRouter, one step per
   store operation; hand[h] is the position of run h *)

\* validateWithOpenRouter(content, env) is called
StartRun(h, length) ==
    /\ hand[h].pc = "idle"
    /\ hand' = [hand EXCEPT ![h] = [pc |-> "chk_get",
                                    tokenCount |-> estimateTokenCount(length)]]
    /\ ret' = NoCall
    /\ UNCHANGED <<now, PR_STATE, swp, PR_QUEUE>>

\* checkRateLimit: the store answers the get of getRateLimitState
ChkGet(h) ==
    /\ hand[h].pc = "chk_get"
    /\ hand' = [hand EXCEPT ![h] = [pc |-> "chk_resume",
                                    tokenCount |-> hand[h].tokenCount,
                                    existing |-> PR_STATE["rate_limit"]]]
    /\ ret' = NoCall
    /\ UNCHANGED <<now, PR_STATE, swp, PR_QUEUE>>

\* checkRateLimit resumes with what the get returned: Date.now(), the
\* reset, the limits, and the put of the whole counter
ChkResume(h) ==
    /\ hand[h].pc = "chk_resume"
    /\ LET out == CheckOutcome(hand[h].existing, hand[h].tokenCount, now)
       IN  /\ PR_STATE' = IF out.put
                          THEN [PR_STATE EXCEPT !["rate_limit"] = out.text]
                          ELSE PR_STATE
           /\ hand' = [hand EXCEPT ![h] = IF out.put THEN [pc |-> "llm"]
                                          ELSE IdleHandler]
           /\ ret' = [op |-> "checkRateLimit", run |-> h,
                      tokenCount |-> hand[h].tokenCount,
                      read |-> getRateLimitState(hand[h].existing, now),
                      error |-> out.error]
    /\ UNCHANGED <<now, swp, PR_QUEUE>>

\* OpenRouter answers with an analysis of the given length
LlmAnswers(h, length) ==
    /\ hand[h].pc = "llm"
    /\ hand' = [hand EXCEPT ![h] = [pc |-> "out_get",
                                    tokenCount |-> estimateTokenCount(length)]]
    /\ ret' = NoCall
    /\ UNCHANGED <<now, PR_STATE, swp, PR_QUEUE>>

\* OpenRouter answers with an error status or without an analysis
LlmFails(h) ==
    /\ hand[h].pc = "llm"
    /\ hand' = [hand EXCEPT ![h] = IdleHandler]
    /\ ret' = [op |-> "fetch", run |-> h, error |-> "OpenRouter API error"]
    /\ UNCHANGED <<now, PR_STATE, swp, PR_QUEUE>>

\* Output accounting: the store answers the get of getRateLimitState
OutGet(h) ==
    /\ hand[h].pc = "out_get"
    /\ hand' = [hand EXCEPT ![h] = [pc |-> "out_resume",
                                    tokenCount |-> hand[h].tokenCount,
                                    existing |-> PR_STATE["rate_limit"]]]
    /\ ret' = NoCall
    /\ UNCHANGED <<now, PR_STATE, swp, PR_QUEUE>>

\* Output accounting resumes: the addition, the limit, and the put of the
\* whole counter
OutResume(h) ==
    /\ hand[h].pc = "out_resume"
    /\ LET out == OutputOutcome(hand[h].existing, hand[h].tokenCount, now)
       IN  /\ PR_STATE' = IF out.put
                          THEN [PR_STATE EXCEPT !["rate_limit"] = out.text]
                          ELSE PR_STATE
           /\ ret' = [op |-> "recordOutput", run |-> h,
                      tokenCount |-> hand[h].tokenCount,
                      read |-> getRateLimitState(hand[h].existing, now),
                      error |-> out.error]
    /\ hand' = [hand EXCEPT ![h] = IdleHandler]
    /\ UNCHANGED <<now, swp, PR_QUEUE>>

NextRateConc ==
    \/ \E t \in RateConcInstants : Tick(t)
    \/ \E h \in Handlers, n \in RunContentLengths : StartRun(h, n)
    \/ \E h \in Handlers : ChkGet(h)
    \/ \E h \in Handlers : ChkResume(h)
    \/ \E h \in Handlers, n \in RunAnalysisLengths : LlmAnswers(h, n)
    \/ \E h \in Handlers : LlmFails(h)
    \/ \E h \in Handlers : OutGet(h)
    \/ \E h \in Handlers : OutResume(h)

SpecRateConc == Init /\ [][NextRateConc]_vars

----------------------------------------------------------------------------
(* SpecConc: webhook handler invocations, one step per store operation *)

\* The handler builds its job from the payload, comment id included
HandlerJobs ==
    {[repository |-> Targets[1][1], prNumber |-> Targets[1][2], commentId |-> c] :
        c \in CommentIds}

Comment == "# Article Quality Check Results"

RunnerError == "Error running quality checks"

CommentError == "Error creating PR comment"

HKey(h) == getQueueKey(hand[h].job)

\* A valid '/articlecheck' command arrives: the handler starts
\* cleanOldChecks() under waitUntil (oneHourAgo is read and the list is
\* issued at once) and issues enqueueCheck's get.
Arrive(h, job) ==
    /\ hand[h].pc = "idle"
    /\ swp[h].pc \in {"idle", "error"}
    /\ hand' = [hand EXCEPT ![h] = [pc |-> "enq_get", job |-> job]]
    /\ swp' = [swp EXCEPT ![h] = [pc |-> "list", oneHourAgo |-> now - staleAge]]
    /\ ret' = NoCall
    /\ UNCHANGED <<now, PR_STATE, PR_QUEUE>>

\* cleanOldChecks: PR_STATE.list resolves
SweepList(h) ==
    /\ swp[h].pc = "list"
    /\ swp' = [swp EXCEPT ![h] =
                  [pc |-> "get", oneHourAgo |-> swp[h].oneHourAgo,
                   keys |-> ListKeys(PR_STATE, "queue:"), i |-> 1]]
    /\ ret' = NoCall
    /\ UNCHANGED <<now, PR_STATE, hand, PR_QUEUE>>

\* cleanOldChecks: the loop is over, or the get of keys[i] resolves. A key
\* deleted since the list gives null, and reading null.timestamp throws.
SweepGet(h) ==
    /\ swp[h].pc = "get"
    /\ LET s == swp[h]
       IN  swp' = [swp EXCEPT ![h] =
                IF s.i > Len(s.keys) THEN IdleSweep
                ELSE LET check == JSONParse(PR_STATE[s.keys[s.i]])
                     IN  IF check = Null THEN [pc |-> "error"]
                         ELSE IF IsStale(check, s.oneHourAgo)
                         THEN [pc |-> "delete", oneHourAgo |-> s.oneHourAgo,
                               keys |-> s.keys, i |-> s.i,
                               readTimestamp |-> check.timestamp]
                         ELSE [pc |-> "get", oneHourAgo |-> s.oneHourAgo,
                               keys |-> s.keys, i |-> s.i + 1]]
    /\ ret' = NoCall
    /\ UNCHANGED <<now, PR_STATE, hand, PR_QUEUE>>

\* cleanOldChecks: the delete of keys[i] takes effect
SweepDelete(h) ==
    /\ swp[h].pc = "delete"
    /\ PR_STATE' = [PR_STATE EXCEPT ![swp[h].keys[swp[h].i]] = Null]
    /\ swp' = [swp EXCEPT ![h] =
                  [pc |-> "get", oneHourAgo |-> swp[h].oneHourAgo,
                   keys |-> swp[h].keys, i |-> swp[h].i + 1]]
    /\ ret' = NoCall
    /\ UNCHANGED <<now, hand, PR_QUEUE>>

\* enqueueCheck: the get resolves
EnqGet(h) ==
    /\ hand[h].pc = "enq_get"
    /\ hand' = [hand EXCEPT ![h] =
                   [pc |-> "enq_put", job |-> hand[h].job,
                    existing |-> PR_STATE[HKey(h)]]]
    /\ ret' = NoCall
    /\ UNCHANGED <<now, PR_STATE, swp, PR_QUEUE>>

\* enqueueCheck resumes: it returns isNew = false, or puts the new check and
\* returns isNew = true, after which the handler issues
\* updateCheckStatus(job, "processing")
EnqResume(h) ==
    /\ hand[h].pc = "enq_put"
    /\ LET out == EnqueueOutcome(hand[h].existing, hand[h].job, now)
       IN  /\ PR_STATE' = IF out.put
                          THEN [PR_STATE EXCEPT ![HKey(h)] = out.text]
                          ELSE PR_STATE
           /\ hand' = [hand EXCEPT ![h] =
                  IF out.isNew
                  THEN [pc |-> "upd_get", job |-> hand[h].job,
                        args |-> [status |-> "processing"]]
                  ELSE [pc |-> "reject", job |-> hand[h].job,
                        message |-> out.message]]
    /\ ret' = NoCall
    /\ UNCHANGED <<now, swp, PR_QUEUE>>

PostStatus_thenUpdates(h) ==
    /\ hand[h].pc = "reject"
    /\ hand' = [hand EXCEPT ![h] =
                   [pc |-> "upd_get", job |-> hand[h].job,
                    args |-> [status |-> "failed"]]]
    /\ ret' = [op |-> "respond", job |-> hand[h].job,
               posted |-> hand[h].message,
               response |-> [status |-> 200, body |-> hand[h].message]]
    /\ UNCHANGED <<now, PR_STATE, swp, PR_QUEUE>>

\* isNew = false: the status message is posted as a comment and the request
\* answered with it, status 200
PostStatus(h) ==
    /\ hand[h].pc = "reject"
    /\ hand' = [hand EXCEPT ![h] = IdleHandler]
    /\ ret' = [op |-> "respond", job |-> hand[h].job,
               posted |-> hand[h].message,
               response |-> [status |-> 200, body |-> hand[h].message]]
    /\ UNCHANGED <<now, PR_STATE, swp, PR_QUEUE>>

\* updateCheckStatus: the get resolves
UpdGet(h) ==
    /\ hand[h].pc = "upd_get"
    /\ hand' = [hand EXCEPT ![h] =
                   [pc |-> "upd_put", job |-> hand[h].job,
                    args |-> hand[h].args, existing |-> PR_STATE[HKey(h)]]]
    /\ ret' = NoCall
    /\ UNCHANGED <<now, PR_STATE, swp, PR_QUEUE>>

UpdPut_noCatch(h) ==
    /\ hand[h].pc = "upd_put"
    /\ LET out == UpdateOutcome(hand[h].existing, hand[h].args)
           stage == hand[h].args.status
       IN  /\ PR_STATE' = IF out.put
                          THEN [PR_STATE EXCEPT ![HKey(h)] = out.text]
                          ELSE PR_STATE
           /\ hand' = [hand EXCEPT ![h] =
                  IF stage = "processing" /\ out.error = "none"
                  THEN [pc |-> "run", job |-> hand[h].job]
                  ELSE IdleHandler]
    /\ ret' = NoCall
    /\ UNCHANGED <<now, swp, PR_QUEUE>>

\* updateCheckStatus resumes: it throws not-found, or puts the record. A
\* throw inside the handler's try goes to its catch, which issues
\* updateCheckStatus(job, "failed", message); a throw from the catch, and
\* the rethrow after it, end the request with status 500.
UpdPut(h) ==
    /\ hand[h].pc = "upd_put"
    /\ LET out == UpdateOutcome(hand[h].existing, hand[h].args)
           stage == hand[h].args.status
       IN  /\ PR_STATE' = IF out.put
                          THEN [PR_STATE EXCEPT ![HKey(h)] = out.text]
                          ELSE PR_STATE
           /\ hand' = [hand EXCEPT ![h] =
                  IF stage = "failed" THEN IdleHandler
                  ELSE IF out.error # "none"
                  THEN [pc |-> "upd_get", job |-> hand[h].job,
                        args |-> [status |-> "failed", result |-> out.error]]
                  ELSE IF stage = "processing"
                  THEN [pc |-> "run", job |-> hand[h].job]
                  ELSE IdleHandler]
    /\ ret' = NoCall
    /\ UNCHANGED <<now, swp, PR_QUEUE>>

\* runQualityChecks resolves
RunOk(h) ==
    /\ hand[h].pc = "run"
    /\ hand' = [hand EXCEPT ![h] = [pc |-> "comment", job |-> hand[h].job]]
    /\ ret' = NoCall
    /\ UNCHANGED <<now, PR_STATE, swp, PR_QUEUE>>

\* runQualityChecks throws
RunThrows(h) ==
    /\ hand[h].pc = "run"
    /\ hand' = [hand EXCEPT ![h] =
                   [pc |-> "upd_get", job |-> hand[h].job,
                    args |-> [status |-> "failed", result |-> RunnerError]]]
    /\ ret' = NoCall
    /\ UNCHANGED <<now, PR_STATE, swp, PR_QUEUE>>

\* runQualityChecks never resolves (no timeout cancels it): the invocation
\* does nothing more, and is no longer tracked
RunHangs(h) ==
    /\ hand[h].pc = "run"
    /\ hand' = [hand EXCEPT ![h] = IdleHandler]
    /\ ret' = NoCall
    /\ UNCHANGED <<now, PR_STATE, swp, PR_QUEUE>>

\* The results comment is posted; updateCheckStatus(job, "completed", comment)
CommentOk(h) ==
    /\ hand[h].pc = "comment"
    /\ hand' = [hand EXCEPT ![h] =
                   [pc |-> "upd_get", job |-> hand[h].job,
                    args |-> [status |-> "completed", result |-> Comment]]]
    /\ ret' = NoCall
    /\ UNCHANGED <<now, PR_STATE, swp, PR_QUEUE>>

\* Posting the results comment throws
CommentThrows(h) ==
    /\ hand[h].pc = "comment"
    /\ hand' = [hand EXCEPT ![h] =
                   [pc |-> "upd_get", job |-> hand[h].job,
                    args |-> [status |-> "failed", result |-> CommentError]]]
    /\ ret' = NoCall
    /\ UNCHANGED <<now, PR_STATE, swp, PR_QUEUE>>

SweepStep(h) == SweepList(h) \/ SweepGet(h) \/ SweepDelete(h)

NextConc ==
    \/ \E t \in ConcInstants : Tick(t)
    \/ \E h \in Handlers, job \in HandlerJobs : Arrive(h, job)
    \/ \E h \in Handlers : SweepList(h)
    \/ \E h \in Handlers : SweepGet(h)
    \/ \E h \in Handlers : SweepDelete(h)
    \/ \E h \in Handlers : EnqGet(h)
    \/ \E h \in Handlers : EnqResume(h)
    \/ \E h \in Handlers : PostStatus(h)
    \/ \E h \in Handlers : UpdGet(h)
    \/ \E h \in Handlers : UpdPut(h)
    \/ \E h \in Handlers : RunOk(h)
    \/ \E h \in Handlers : RunThrows(h)
    \/ \E h \in Handlers : RunHangs(h)
    \/ \E h \in Handlers : CommentOk(h)
    \/ \E h \in Handlers : CommentThrows(h)

SpecConc == Init /\ [][NextConc]_vars

----------------------------------------------------------------------------
(* SpecOwn: invocations that answer a comment each, with no two          *)
(* enqueueCheck calls overlapping (SpecConc less the admission race)     *)

\* The job of invocation h: the same pull request, the id of its comment
OwnJob(h) ==
    [repository |-> Targets[1][1], prNumber |-> Targets[1][2],
     commentId |-> 6 + h]

\* enqueueCheck, its get and its put with no store operation of another
\* invocation or sweep in between
EnqueueAtOnce(h) ==
    /\ hand[h].pc = "enq_get"
    /\ LET out == EnqueueOutcome(PR_STATE[HKey(h)], hand[h].job, now)
       IN  /\ PR_STATE' = IF out.put
                          THEN [PR_STATE EXCEPT ![HKey(h)] = out.text]
                          ELSE PR_STATE
           /\ hand' = [hand EXCEPT ![h] =
                  IF out.isNew
                  THEN [pc |-> "upd_get", job |-> hand[h].job,
                        args |-> [status |-> "processing"]]
                  ELSE [pc |-> "reject", job |-> hand[h].job,
                        message |-> out.message]]
    /\ ret' = NoCall
    /\ UNCHANGED <<now, swp, PR_QUEUE>>

NextOwn ==
    \/ \E t \in ConcInstants : Tick(t)
    \/ \E h \in Handlers : Arrive(h, OwnJob(h))
    \/ \E h \in Handlers : SweepList(h)
    \/ \E h \in Handlers : SweepGet(h)
    \/ \E h \in Handlers : SweepDelete(h)
    \/ \E h \in Handlers : EnqueueAtOnce(h)
    \/ \E h \in Handlers : PostStatus(h)
    \/ \E h \in Handlers : UpdGet(h)
    \/ \E h \in Handlers : UpdPut(h)
    \/ \E h \in Handlers : RunOk(h)
    \/ \E h \in Handlers : RunThrows(h)
    \/ \E h \in Handlers : RunHangs(h)
    \/ \E h \in Handlers : CommentOk(h)
    \/ \E h \in Handlers : CommentThrows(h)

SpecOwn == Init /\ [][NextOwn]_vars

----------------------------------------------------------------------------
(* SpecRun: handler invocations with the steps of runQualityChecks *)

ValidateCheck_swallows(h, length) ==
    /\ hand[h].pc = "run"
    /\ LET tokenCount == estimateTokenCount(length)
           out == CheckOutcome(PR_STATE["rate_limit"], tokenCount, now)
       IN  /\ PR_STATE' = IF out.put
                          THEN [PR_STATE EXCEPT !["rate_limit"] = out.text]
                          ELSE PR_STATE
           /\ hand' = [hand EXCEPT ![h] = [pc |-> "llm", job |-> hand[h].job]]
           /\ ret' = [op |-> "checkRateLimit", job |-> hand[h].job,
                      error |-> out.error]
    /\ UNCHANGED <<now, swp, PR_QUEUE>>

\* fetchPRContent returns an article of the given length and
\* validateWithOpenRouter calls checkRateLimit: on success the request to
\* OpenRouter is sent; a throw passes through runQualityChecks to the
\* handler's catch, which issues updateCheckStatus(job, "failed", message)
ValidateCheck(h, length) ==
    /\ hand[h].pc = "run"
    /\ LET tokenCount == estimateTokenCount(length)
           out == CheckOutcome(PR_STATE["rate_limit"], tokenCount, now)
       IN  /\ PR_STATE' = IF out.put
                          THEN [PR_STATE EXCEPT !["rate_limit"] = out.text]
                          ELSE PR_STATE
           /\ hand' = [hand EXCEPT ![h] =
                  IF out.error = "none"
                  THEN [pc |-> "llm", job |-> hand[h].job]
                  ELSE [pc |-> "upd_get", job |-> hand[h].job,
                        args |-> [status |-> "failed", result |-> out.error]]]
           /\ ret' = [op |-> "checkRateLimit", job |-> hand[h].job,
                      error |-> out.error]
    /\ UNCHANGED <<now, swp, PR_QUEUE>>

\* OpenRouter answers with an analysis of the given length and its output
\* tokens are accounted: on success runQualityChecks returns its results
ValidateAnswer(h, length) ==
    /\ hand[h].pc = "llm"
    /\ LET tokenCount == estimateTokenCount(length)
           out == OutputOutcome(PR_STATE["rate_limit"], tokenCount, now)
       IN  /\ PR_STATE' = IF out.put
                          THEN [PR_STATE EXCEPT !["rate_limit"] = out.text]
                          ELSE PR_STATE
           /\ hand' = [hand EXCEPT ![h] =
                  IF out.error = "none"
                  THEN [pc |-> "comment", job |-> hand[h].job]
                  ELSE [pc |-> "upd_get", job |-> hand[h].job,
                        args |-> [status |-> "failed", result |-> out.error]]]
           /\ ret' = [op |-> "recordOutput", job |-> hand[h].job,
                      error |-> out.error]
    /\ UNCHANGED <<now, swp, PR_QUEUE>>

\* OpenRouter answers with an error status or without an analysis
ValidateFails(h) ==
    /\ hand[h].pc = "llm"
    /\ hand' = [hand EXCEPT ![h] =
                   [pc |-> "upd_get", job |-> hand[h].job,
                    args |-> [status |-> "failed", result |-> RunnerError]]]
    /\ ret' = NoCall
    /\ UNCHANGED <<now, PR_STATE, swp, PR_QUEUE>>

NextRun ==
    \/ \E t \in ConcInstants : Tick(t)
    \/ \E h \in RunHandlers, job \in HandlerJobs : Arrive(h, job)
    \/ \E h \in RunHandlers : SweepList(h)
    \/ \E h \in RunHandlers : SweepGet(h)
    \/ \E h \in RunHandlers : SweepDelete(h)
    \/ \E h \in RunHandlers : EnqGet(h)
    \/ \E h \in RunHandlers : EnqResume(h)
    \/ \E h \in RunHandlers : PostStatus(h)
    \/ \E h \in RunHandlers : UpdGet(h)
    \/ \E h \in RunHandlers : UpdPut(h)
    \/ \E h \in RunHandlers : RunThrows(h)
    \/ \E h \in RunHandlers, n \in ArticleLengths : ValidateCheck(h, n)
    \/ \E h \in RunHandlers, n \in ReplyLengths : ValidateAnswer(h, n)
    \/ \E h \in RunHandlers : ValidateFails(h)
    \/ \E h \in RunHandlers : CommentOk(h)
    \/ \E h \in RunHandlers : CommentThrows(h)

SpecRun == Init /\ [][NextRun]_vars

----------------------------------------------------------------------------
(* SpecLive: invocations whose runner never settles, under the scheduling *)
(* of the worker runtime                                                  *)

\* The next step of invocation h once the promise it awaits settles; the
\* promise of runQualityChecks never does
HandlerStep(h) ==
    \/ EnqGet(h) \/ EnqResume(h) \/ PostStatus(h)
    \/ UpdGet(h) \/ UpdPut(h)
    \/ RunHangs(h)

NextLive ==
    \/ \E t \in ConcInstants : Tick(t)
    \/ \E h \in Handlers, job \in HandlerJobs : Arrive(h, job)
    \/ \E h \in Handlers : SweepList(h)
    \/ \E h \in Handlers : SweepGet(h)
    \/ \E h \in Handlers : SweepDelete(h)
    \/ \E h \in Handlers : EnqGet(h)
    \/ \E h \in Handlers : EnqResume(h)
    \/ \E h \in Handlers : PostStatus(h)
    \/ \E h \in Handlers : UpdGet(h)
    \/ \E h \in Handlers : UpdPut(h)
    \/ \E h \in Handlers : RunHangs(h)

\* Every store operation and every posted comment settles, a sweep started
\* under waitUntil is run to its end, and commands keep arriving. Nothing
\* makes the clock advance.
Fairness ==
    /\ \A h \in Handlers : WF_vars(\E job \in HandlerJobs : Arrive(h, job))
    /\ \A h \in Handlers : WF_vars(SweepStep(h))
    /\ \A h \in Handlers : WF_vars(HandlerStep(h))

SpecLive == Init /\ [][NextLive]_vars /\ Fairness

----------------------------------------------------------------------------
(* Webhook requests *)

WEBHOOK_SECRET == "whsec"

OtherSecret == "guess"

\* s.includes(sub)
Includes(s, sub) ==
    \E i \in 1..(Len(s) - Len(sub) + 1) : SubSeq(s, i, i + Len(sub) - 1) = sub

\* Payloads GitHub delivers: a comment with the command on a pull request,
\* the same on a plain issue, a comment without the command, a push
CommandOnPR ==
    [issue |-> [number |-> Targets[1][2], pull_request |-> [url |-> "pulls/42"]],
     comment |-> [id |-> 7, body |-> "please /articlecheck"],
     repository |-> [full_name |-> Targets[1][1]]]

CommandOnIssue ==
    [issue |-> [number |-> Targets[1][2]],
     comment |-> [id |-> 7, body |-> "/articlecheck"],
     repository |-> [full_name |-> Targets[1][1]]]

RemarkOnPR ==
    [issue |-> [number |-> Targets[1][2], pull_request |-> [url |-> "pulls/42"]],
     comment |-> [id |-> 7, body |-> "looks good"],
     repository |-> [full_name |-> Targets[1][1]]]

PushPayload ==
    [ref |-> "refs/heads/main", repository |-> [full_name |-> Targets[1][1]]]

\* A request body is a text: the JSON of a payload, written compactly (as
\* JSON.stringify writes it) or with other spacing, or no JSON at all
BodyText(payload, form) == [json |-> payload, form |-> form]

NotJson == [form |-> "garbage"]

Bodies ==
    {BodyText(CommandOnPR, "compact"), BodyText(CommandOnPR, "spaced"),
     BodyText(CommandOnIssue, "compact"), BodyText(RemarkOnPR, "compact"),
     BodyText(PushPayload, "compact"), NotJson}

IsJson(text) == text.form # "garbage"

\* JSON.parse / request.json() of a body that is JSON
ParseBody(text) == text.json

\* JSON.stringify(payload)
StringifyPayload(payload) == BodyText(payload, "compact")

\* HMAC-SHA256 of a message under a key: equal digests come from equal keys
\* and equal messages only
HmacSha256(secret, message) == [key |-> secret, message |-> message]

\* "sha256=" followed by the digest in hexadecimal
Sha256Header(digest) == [scheme |-> "sha256=", hex |-> digest]

verifyGitHubWebhook_anyDigest(payload, signature, secret) ==
    signature.scheme = "sha256="

verifyGitHubWebhook(payload, signature, secret) ==
    Sha256Header(HmacSha256(secret, payload)) = signature

\* utils/github: the digest is taken over JSON.stringify(payload), the
\* payload being the parsed body
verifyGitHubSignature(payload, signature, secret) ==
    signature = Sha256Header(HmacSha256(secret, StringifyPayload(payload)))

\* A header that is there, with its value (request.headers.get gives Null
\* for one that is missing)
Header(value) == [value |-> value]

\* The x-hub-signature-256 header over a text under a secret
Signed(secret, text) == Header(Sha256Header(HmacSha256(secret, text)))

\* event: the x-github-event header; delivery: whether the
\* x-github-delivery header is there
Request(method, event, delivery, signature, body) ==
    [method |-> method, event |-> event, delivery |-> delivery,
     signature |-> signature, body |-> body]

\* Bodies with the signatures they come with: signed by GitHub over the
\* text sent, signed over the compact form of a text sent with other
\* spacing, signed with another secret, not signed
SignedBodies ==
    LET own(b) == Signed(WEBHOOK_SECRET, b)
    IN  {<<BodyText(CommandOnPR, "compact"), own(BodyText(CommandOnPR, "compact"))>>,
         <<BodyText(CommandOnPR, "compact"),
           Signed(OtherSecret, BodyText(CommandOnPR, "compact"))>>,
         <<BodyText(CommandOnPR, "compact"), Null>>,
         <<BodyText(CommandOnPR, "spaced"), own(BodyText(CommandOnPR, "spaced"))>>,
         <<BodyText(CommandOnPR, "spaced"), own(BodyText(CommandOnPR, "compact"))>>,
         <<BodyText(CommandOnIssue, "compact"),
           own(BodyText(CommandOnIssue, "compact"))>>,
         <<BodyText(RemarkOnPR, "compact"), own(BodyText(RemarkOnPR, "compact"))>>,
         <<BodyText(PushPayload, "compact"), own(BodyText(PushPayload, "compact"))>>,
         <<NotJson, own(NotJson)>>,
         <<NotJson, Signed(OtherSecret, NotJson)>>}

\* POST requests with all headers, and the command request with a header
\* missing or another method
Requests ==
    {Request("POST", Header(e), TRUE, sb[2], sb[1]) :
        e \in {"issue_comment", "push"}, sb \in SignedBodies}
    \cup
    {Request(m, e, d, g, BodyText(CommandOnPR, "compact")) :
        m \in {"POST", "GET"}, e \in {Header("issue_comment"), Null},
        d \in BOOLEAN,
        g \in {Signed(WEBHOOK_SECRET, BodyText(CommandOnPR, "compact")), Null}}

REQUIRED_HEADERS == <<"x-github-event", "x-hub-signature-256", "x-github-delivery">>

HasHeader(req, header) ==
    CASE header = "x-github-event" -> req.event # Null
      [] header = "x-hub-signature-256" -> req.signature # Null
      [] header = "x-github-delivery" -> req.delivery

\* The first required header the request lacks (0: it has them all)
RECURSIVE FirstMissing(_, _)
FirstMissing(req, i) ==
    IF i > Len(REQUIRED_HEADERS) THEN 0
    ELSE IF ~HasHeader(req, REQUIRED_HEADERS[i]) THEN i
    ELSE FirstMissing(req, i + 1)

\* payload.comment?.body?.includes('/articlecheck')
HasCommand(payload) ==
    /\ HasProp(payload, "comment")
    /\ HasProp(payload.comment, "body")
    /\ Includes(payload.comment.body, "/articlecheck")

\* payload.issue?.pull_request
IsPullRequest(payload) ==
    HasProp(payload, "issue") /\ HasProp(payload.issue, "pull_request")

\* The job the queue-based handler sends (sha: pull_request.head?.sha)
QueueJob(payload) ==
    [prNumber |-> payload.issue.number,
     repository |-> payload.repository.full_name]
    @@ (IF HasProp(payload.issue.pull_request, "head")
           /\ HasProp(payload.issue.pull_request.head, "sha")
        THEN [sha |-> payload.issue.pull_request.head.sha] ELSE EmptyObject)

\* The job the store-based handler admits
CommandJob(payload) ==
    [repository |-> payload.repository.full_name,
     prNumber |-> payload.issue.number,
     commentId |-> payload.comment.id]

Response(status, body) == [status |-> status, body |-> body]

\* The queue-based handler up to its response; send: the job it sends first
QueueOutcome_signatureFirst(req) ==
    IF req.method # "POST"
    THEN [response |-> Response(405, "Method not allowed"), send |-> Null]
    ELSE IF req.signature = Null
            \/ (IsJson(req.body)
                /\ ~verifyGitHubSignature(ParseBody(req.body),
                                          req.signature.value, WEBHOOK_SECRET))
    THEN [response |-> Response(401, "Invalid signature"), send |-> Null]
    ELSE IF FirstMissing(req, 1) # 0
    THEN [response |->
              Response(400, "Missing " \o REQUIRED_HEADERS[FirstMissing(req, 1)]
                                 \o " header"),
          send |-> Null]
    ELSE IF ~IsJson(req.body)
    THEN [response |-> Response(500, "Internal server error"), send |-> Null]
    ELSE LET payload == ParseBody(req.body)
         IN  IF /\ req.event = Header("issue_comment")
                /\ IsPullRequest(payload)
                /\ HasCommand(payload)
             THEN [response |-> Response(202, "Article check queued"),
                   send |-> QueueJob(payload)]
             ELSE [response |-> Response(422, "Event not supported"),
                   send |-> Null]

QueueOutcome(req) ==
    IF req.method # "POST"
    THEN [response |-> Response(405, "Method not allowed"), send |-> Null]
    ELSE IF FirstMissing(req, 1) # 0
    THEN [response |->
              Response(400, "Missing " \o REQUIRED_HEADERS[FirstMissing(req, 1)]
                                 \o " header"),
          send |-> Null]
    ELSE IF ~IsJson(req.body)
    THEN [response |-> Response(500, "Internal server error"), send |-> Null]
    ELSE LET payload == ParseBody(req.body)
         IN  IF ~verifyGitHubSignature(payload, req.signature.value,
                                       WEBHOOK_SECRET)
             THEN [response |-> Response(401, "Invalid signature"),
                   send |-> Null]
             ELSE IF /\ req.event = Header("issue_comment")
                     /\ IsPullRequest(payload)
                     /\ HasCommand(payload)
             THEN [response |-> Response(202, "Article check queued"),
                   send |-> QueueJob(payload)]
             ELSE [response |-> Response(422, "Event not supported"),
                   send |-> Null]

\* The store-based handler up to its response, or to the job it goes on with
StoreOutcome(req) ==
    IF req.signature = Null
       \/ ~verifyGitHubWebhook(req.body, req.signature.value, WEBHOOK_SECRET)
    THEN [response |-> Response(401, "Invalid signature"), job |-> Null]
    ELSE IF ~IsJson(req.body)
    THEN [response |-> Response(500, "Unexpected token"), job |-> Null]
    ELSE LET payload == ParseBody(req.body)
         IN  IF req.event = Header("issue_comment") /\ HasCommand(payload)
             THEN [response |-> Null, job |-> CommandJob(payload)]
             ELSE [response |-> Response(200, "OK"), job |-> Null]

----------------------------------------------------------------------------
(* SpecHook: requests to the two webhook handlers, the store-based handler *)
(* running one invocation at a time, and a store that can fail            *)

\* The invocation slot of SpecHook
HookHandlers == {1}

StoreError == "KV operation failed"

Respond(handler, req, response) ==
    /\ ret' = [op |-> "fetch", handler |-> handler, request |-> req,
               response |-> response]
    /\ UNCHANGED <<now, PR_STATE, hand, swp, PR_QUEUE>>

\* The queue-based handler: fetch. (ret holds one request and its response
\* at a time: the next request is looked at once Answered has cleared it.)
QueueFetch(req) ==
    LET out == QueueOutcome(req)
    IN  /\ ret.op # "fetch"
        /\ IF out.send = Null
           THEN Respond("queue", req, out.response)
           ELSE /\ Len(PR_QUEUE) < MaxQueue
                /\ PR_QUEUE' = Append(PR_QUEUE, out.send)
                /\ ret' = [op |-> "fetch", handler |-> "queue",
                           request |-> req, response |-> out.response]
                /\ UNCHANGED <<now, PR_STATE, hand, swp>>

\* The store-based handler: fetch, up to its response or to enqueueCheck
StoreFetch(h, req) ==
    LET out == StoreOutcome(req)
    IN  /\ ret.op # "fetch"
        /\ IF out.job = Null
           THEN Respond("store", req, out.response)
           ELSE Arrive(h, out.job)

\* The response has gone out
Answered ==
    /\ ret.op = "fetch"
    /\ ret' = NoCall
    /\ UNCHANGED <<now, PR_STATE, hand, swp, PR_QUEUE>>

\* A request of the store-based handler ends with status 500: an error
\* reached the outer catch
Fail500(h, call, message) ==
    /\ hand' = [hand EXCEPT ![h] = IdleHandler]
    /\ ret' = [op |-> "fetchFailed", job |-> hand[h].job, call |-> call,
               response |-> Response(500, message)]

\* enqueueCheck: the get rejects
EnqGetFails(h) ==
    /\ hand[h].pc = "enq_get"
    /\ Fail500(h, "enqueueCheck get", StoreError)
    /\ UNCHANGED <<now, PR_STATE, swp, PR_QUEUE>>

EnqPutFails_swallowed(h) ==
    /\ hand[h].pc = "enq_put"
    /\ EnqueueOutcome(hand[h].existing, hand[h].job, now).put
    /\ hand' = [hand EXCEPT ![h] =
                   [pc |-> "upd_get", job |-> hand[h].job,
                    args |-> [status |-> "processing"]]]
    /\ ret' = NoCall
    /\ UNCHANGED <<now, PR_STATE, swp, PR_QUEUE>>

\* enqueueCheck: the put rejects, and nothing is stored
EnqPutFails(h) ==
    /\ hand[h].pc = "enq_put"
    /\ EnqueueOutcome(hand[h].existing, hand[h].job, now).put
    /\ Fail500(h, "enqueueCheck put", StoreError)
    /\ UNCHANGED <<now, PR_STATE, swp, PR_QUEUE>>

\* updateCheckStatus: the get, or the put, rejects. Inside the try the catch
\* block takes over; a rejection inside the catch block ends the request.
UpdFails(h) ==
    /\ hand[h].pc \in {"upd_get", "upd_put"}
    /\ hand[h].pc = "upd_put" => hand[h].existing # Null
    /\ IF hand[h].args.status = "failed"
       THEN Fail500(h, "updateCheckStatus", StoreError)
       ELSE /\ hand' = [hand EXCEPT ![h] =
                   [pc |-> "upd_get", job |-> hand[h].job,
                    args |-> [status |-> "failed", result |-> StoreError]]]
            /\ ret' = NoCall
    /\ UNCHANGED <<now, PR_STATE, swp, PR_QUEUE>>

\* cleanOldChecks: the list, a get or a delete rejects; the sweep ends there
SweepFails(h) ==
    /\ swp[h].pc \in {"list", "get", "delete"}
    /\ swp[h].pc = "get" => swp[h].i <= Len(swp[h].keys)
    /\ swp' = [swp EXCEPT ![h] = [pc |-> "error"]]
    /\ ret' = NoCall
    /\ UNCHANGED <<now, PR_STATE, hand, PR_QUEUE>>

NextHook ==
    \/ \E t \in ConcInstants : Tick(t)
    \/ \E req \in Requests : QueueFetch(req)
    \/ \E h \in HookHandlers, req \in Requests : StoreFetch(h, req)
    \/ Answered
    \/ \E h \in HookHandlers : SweepList(h)
    \/ \E h \in HookHandlers : SweepGet(h)
    \/ \E h \in HookHandlers : SweepDelete(h)
    \/ \E h \in HookHandlers : SweepFails(h)
    \/ \E h \in HookHandlers : EnqGet(h)
    \/ \E h \in HookHandlers : EnqGetFails(h)
    \/ \E h \in HookHandlers : EnqResume(h)
    \/ \E h \in HookHandlers : EnqPutFails(h)
    \/ \E h \in HookHandlers : PostStatus(h)
    \/ \E h \in HookHandlers : UpdGet(h)
    \/ \E h \in HookHandlers : UpdPut(h)
    \/ \E h \in HookHandlers : UpdFails(h)
    \/ \E h \in HookHandlers : RunOk(h)
    \/ \E h \in HookHandlers : RunThrows(h)
    \/ \E h \in HookHandlers : RunHangs(h)
    \/ \E h \in HookHandlers : CommentOk(h)
    \/ \E h \in HookHandlers : CommentThrows(h)

SpecHook == Init /\ [][NextHook]_vars

----------------------------------------------------------------------------
(* SpecQueue: the queue-based handler and its consumer, one message at a   *)
(* time; hand[1] is the message the consumer is working on                *)

MaxAttempts == 3

\* message.body.attempt || 0
Attempt(body) == IF HasProp(body, "attempt") THEN body.attempt ELSE 0

\* Where the consumer stores the results of a job
ResultsKey(job) == "pr:" \o job.repository \o ":" \o ToString(job.prNumber)

\* What runQualityChecks returns to the consumer
CheckResults == << [passed |-> TRUE, details |-> "LGTM"] >>

\* The runtime hands the next message of PR_QUEUE to queue()
Deliver ==
    /\ hand[1].pc = "idle"
    /\ Len(PR_QUEUE) > 0
    /\ hand' = [hand EXCEPT ![1] = [pc |-> "process", body |-> Head(PR_QUEUE)]]
    /\ PR_QUEUE' = Tail(PR_QUEUE)
    /\ ret' = NoCall
    /\ UNCHANGED <<now, PR_STATE, swp>>

\* The checks run, the comment is posted and the results are stored; the
\* message is acknowledged
ProcessOk ==
    /\ hand[1].pc = "process"
    /\ PR_STATE' = SetProp(PR_STATE, ResultsKey(hand[1].body),
                           JSONStringify(CheckResults))
    /\ hand' = [hand EXCEPT ![1] = IdleHandler]
    /\ ret' = [op |-> "queue", body |-> hand[1].body, error |-> "none",
               ack |-> TRUE]
    /\ UNCHANGED <<now, swp, PR_QUEUE>>

ProcessFails_alwaysResends ==
    /\ hand[1].pc = "process"
    /\ PR_QUEUE' = Append(PR_QUEUE,
                          SetProp(hand[1].body, "attempt",
                                  Attempt(hand[1].body) + 1))
    /\ hand' = [hand EXCEPT ![1] = IdleHandler]
    /\ ret' = [op |-> "queue", body |-> hand[1].body, error |-> RunnerError,
               ack |-> TRUE]
    /\ UNCHANGED <<now, PR_STATE, swp>>

\* The checks, the comment or the put throws: the catch block sends the
\* job again while its attempt is below 3, then acknowledges the message
ProcessFails ==
    /\ hand[1].pc = "process"
    /\ PR_QUEUE' = IF Attempt(hand[1].body) < MaxAttempts
                   THEN Append(PR_QUEUE,
                               SetProp(hand[1].body, "attempt",
                                       Attempt(hand[1].body) + 1))
                   ELSE PR_QUEUE
    /\ hand' = [hand EXCEPT ![1] = IdleHandler]
    /\ ret' = [op |-> "queue", body |-> hand[1].body, error |-> RunnerError,
               ack |-> TRUE]
    /\ UNCHANGED <<now, PR_STATE, swp>>

NextQueue ==
    \/ \E req \in Requests : QueueFetch(req)
    \/ Answered
    \/ Deliver
    \/ ProcessOk
    \/ ProcessFails

SpecQueue == Init /\ [][NextQueue]_vars

----------------------------------------------------------------------------
(* Properties of the QueueManager calls (Spec) *)

Terminal(text) ==
    text # Null /\ text.status \in {"completed", "failed"}

InFlight(text) ==
    text # Null /\ text.status \in {"pending", "processing"}

\* The record enqueueCheck(job) is to store at time t
FreshRecord(text, job, t) ==
    /\ text # Null
    /\ text.status = "pending"
    /\ text.repository = job.repository
    /\ text.prNumber = job.prNumber
    /\ HasProp(text, "commentId") = HasProp(job, "commentId")
    /\ HasProp(job, "commentId") => text.commentId = job.commentId
    /\ text.timestamp = t
    /\ ~HasProp(text, "result")

\* The key of the call that has just returned
RetKey == getQueueKey(ret.job)

\* C1: enqueueCheck(J) on a key with no stored record returns isNew = true
\* and stores, under J's key, a record with status 'pending', J's
\* repository, prNumber and commentId, the time of the call as timestamp,
\* and no result.
C1_AdmitIdle ==
    [][(ret'.op = "enqueueCheck" /\ PR_STATE[RetKey'] = Null)
       => /\ ret'.isNew
          /\ ret'.message.kind = "started"
          /\ FreshRecord(PR_STATE'[RetKey'], ret'.job, now)]_vars

C1_Witness ==
    /\ ret.op = "enqueueCheck"
    /\ ret.read = "none"
    /\ ret.isNew
    /\ now > 0
    /\ HasProp(ret.job, "commentId")
    /\ PR_STATE[RetKey].commentId = ret.job.commentId
    /\ PR_STATE[RetKey].timestamp = now

\* C2: enqueueCheck(J) on a record that is 'pending' or 'processing' returns
\* isNew = false with a message naming that status and writes nothing, the
\* record's timestamp included, however old the record is.
C2_InProgressNoWrite ==
    [][(ret'.op = "enqueueCheck" /\ InFlight(PR_STATE[RetKey']))
       => /\ ~ret'.isNew
          /\ ret'.message = [kind |-> "in_progress",
                             status |-> PR_STATE[RetKey'].status]
          /\ PR_STATE' = PR_STATE]_vars

C2_Witness ==
    /\ ret.op = "enqueueCheck"
    /\ ret.read = "processing"
    /\ ~ret.isNew
    /\ now - PR_STATE[RetKey].timestamp > staleAge

\* C3: enqueueCheck(J) on a 'completed' or 'failed' record whose timestamp
\* is less than 300000 ms before now returns isNew = false, reports a wait
\* time w with 0 < w <= 300 seconds, and writes nothing.
C3_CooldownNoWrite ==
    [][(/\ ret'.op = "enqueueCheck"
        /\ Terminal(PR_STATE[RetKey'])
        /\ now - PR_STATE[RetKey'].timestamp < 300000)
       => /\ ~ret'.isNew
          /\ ret'.message.kind = "cooldown"
          /\ ret'.message.waitTime > 0
          /\ ret'.message.waitTime <= 300
          /\ PR_STATE' = PR_STATE]_vars

C3_Witness ==
    /\ ret.op = "enqueueCheck"
    /\ ret.read \in {"completed", "failed"}
    /\ ~ret.isNew
    /\ now - PR_STATE[RetKey].timestamp = 299999
    /\ ret.message.waitTime = 1

\* C4: enqueueCheck(J) on a 'completed' or 'failed' record whose timestamp
\* is 300000 ms or more before now (300000 included) returns isNew = true
\* and replaces the record by a fresh one: 'pending', timestamp = now, no
\* result.
C4_ReadmitAfterCooldown ==
    [][(/\ ret'.op = "enqueueCheck"
        /\ Terminal(PR_STATE[RetKey'])
        /\ now - PR_STATE[RetKey'].timestamp >= 300000)
       => /\ ret'.isNew
          /\ FreshRecord(PR_STATE'[RetKey'], ret'.job, now)]_vars

\* At now = 300000 the replaced record is exactly 300000 ms old: one admitted
\* at 1 would still be cooling down.
C4_Witness ==
    /\ ret.op = "enqueueCheck"
    /\ ret.read \in {"completed", "failed"}
    /\ ret.isNew
    /\ now = 300000
    /\ PR_STATE[RetKey].status = "pending"
    /\ PR_STATE[RetKey].timestamp = now

\* C6: updateCheckStatus(J, s, r) with no record under J's key fails with the
\* not-found error and leaves the store as it was; no record is created.
C6_UpdateMissingFails ==
    [][(ret'.op = "updateCheckStatus" /\ PR_STATE[RetKey'] = Null)
       => /\ ret'.error = NotFound
          /\ PR_STATE' = PR_STATE
          /\ PR_STATE'[RetKey'] = Null]_vars

C6_Witness ==
    /\ ret.op = "updateCheckStatus"
    /\ ret.error = NotFound
    /\ PR_STATE[RetKey] = Null
    /\ \E k \in QueueKeys : PR_STATE[k] # Null

\* C7: for every 'pending' or 'processing' record and every result string r,
\* the empty string included, updateCheckStatus(J, 'completed', r) leaves the
\* record with status exactly 'completed' and result exactly r.
C7_CompletedSetsResult ==
    [][\A job \in Jobs, r \in Results :
          (/\ UpdateCheckStatus(job, [status |-> "completed", result |-> r])
           /\ InFlight(PR_STATE[getQueueKey(job)]))
          => /\ PR_STATE'[getQueueKey(job)].status = "completed"
             /\ HasProp(PR_STATE'[getQueueKey(job)], "result")
             /\ PR_STATE'[getQueueKey(job)].result = r]_vars

\* C8: a cleanOldChecks() that runs alone deletes every check record whose
\* timestamp is more than 3600000 ms before its start, whatever the status,
\* and leaves every newer record stored and unchanged.
C8_SweepDeletesExactlyStale ==
    [][ret'.op = "cleanOldChecks"
       => \A k \in QueueKeys :
             PR_STATE[k] # Null
             => IF now - PR_STATE[k].timestamp > 3600000
                THEN PR_STATE'[k] = Null
                ELSE PR_STATE'[k] = PR_STATE[k]]_vars

\* Two records were listed; the one 3600001 ms old is gone, the one exactly
\* 3600000 ms old is kept.
C8_Witness ==
    /\ ret.op = "cleanOldChecks"
    /\ Len(ret.list) = 2
    /\ \E k \in QueueKeys : PR_STATE[k] = Null
    /\ \E k \in QueueKeys :
          /\ PR_STATE[k] # Null
          /\ PR_STATE[k].status = "processing"
          /\ now - PR_STATE[k].timestamp = 3600000

\* C18: for a 'completed' or 'failed' record with elapsed = now - timestamp
\* in [0, 300000) ms, the wait time enqueueCheck reports is
\* ceil((300000 - elapsed) / 1000): the least whole number of seconds that
\* covers the remaining time; with elapsed = 200000 ms it is exactly 100.
C18_WaitIsCeilingOfRemaining ==
    [][ret'.op = "enqueueCheck"
       => \E key \in {RetKey'} :
            (/\ Terminal(PR_STATE[key])
             /\ now - PR_STATE[key].timestamp >= 0
             /\ now - PR_STATE[key].timestamp < 300000)
            => LET elapsed == now - PR_STATE[key].timestamp
                   w == ret'.message.waitTime
               IN  /\ ret'.message.kind = "cooldown"
                   /\ w * 1000 >= 300000 - elapsed
                   /\ (w - 1) * 1000 < 300000 - elapsed
                   /\ elapsed = 200000 => w = 100]_vars

\* The scenario of the specification: a completed record admitted 200 s ago.
C18_Witness ==
    /\ ret.op = "enqueueCheck"
    /\ ret.read = "completed"
    /\ ~ret.isNew
    /\ now - PR_STATE[RetKey].timestamp = 200000
    /\ ret.message = [kind |-> "cooldown", waitTime |-> 100]

\* C19: updateCheckStatus changes only status and, when a result is given,
\* result: repository, prNumber, commentId and timestamp of the record are
\* after the call what they were before it, and no other record changes; so
\* the timestamp of a stored record is only ever set by an admitting
\* enqueueCheck.
C19_UpdateKeepsIdentityAndTimestamp ==
    /\ [][(ret'.op = "updateCheckStatus" /\ ret'.error = "none")
          => \E key \in {RetKey'} :
               LET args == ret'.args
                   before == PR_STATE[key]
                   after == PR_STATE'[key]
               IN  /\ before # Null
                   /\ after # Null
                   /\ after.status = args.status
                   /\ after.repository = before.repository
                   /\ after.prNumber = before.prNumber
                   /\ after.timestamp = before.timestamp
                   /\ HasProp(after, "commentId") = HasProp(before, "commentId")
                   /\ HasProp(before, "commentId")
                        => after.commentId = before.commentId
                   /\ DOMAIN after \ {"result"} = DOMAIN before \ {"result"}
                   /\ IF HasProp(after, "result")
                      THEN \/ HasProp(args, "result")
                                /\ after.result = args.result
                           \/ HasProp(before, "result")
                                /\ after.result = before.result
                      ELSE ~HasProp(before, "result")
                   /\ PR_STATE' = [PR_STATE EXCEPT ![key] = after]]_vars
    /\ [][PR_STATE' # PR_STATE
          => \A k \in QueueKeys :
            (/\ PR_STATE'[k] # Null
             /\ PR_STATE[k] = Null
                  \/ PR_STATE'[k].timestamp # PR_STATE[k].timestamp)
            => /\ ret'.op = "enqueueCheck"
               /\ ret'.isNew
               /\ RetKey' = k
               /\ PR_STATE'[k].timestamp = now]_vars

\* A record admitted at 0 was completed, with a result, an hour later, and
\* still carries its comment id and the timestamp of its admission.
C19_Witness ==
    /\ ret.op = "updateCheckStatus"
    /\ ret.error = "none"
    /\ now = 3600000
    /\ PR_STATE[RetKey].status = "completed"
    /\ HasProp(PR_STATE[RetKey], "result")
    /\ HasProp(PR_STATE[RetKey], "commentId")
    /\ PR_STATE[RetKey].timestamp = 0

\* C20: the cooldown is measured from the admission, not from the
\* completion: on a 'completed' or 'failed' record enqueueCheck admits
\* exactly when 300000 ms or more have passed since the timestamp the
\* admission stored, and an updateCheckStatus does not move a record from
\* one side of that limit to the other; a check completed five minutes or
\* more after its admission is admissible at once.
C20_CooldownFromAdmission ==
    /\ [][ret'.op = "enqueueCheck"
          => \E key \in {RetKey'} :
               /\ Terminal(PR_STATE[key])
                    => (ret'.isNew <=> now - PR_STATE[key].timestamp >= 300000)
               /\ (/\ ret.op = "updateCheckStatus" /\ ret.error = "none"
                   /\ RetKey = key
                   /\ Terminal(PR_STATE[key])
                   /\ now - PR_STATE[key].timestamp >= 300000)
                    => /\ ret'.isNew
                       /\ PR_STATE'[key].timestamp = now]_vars
    /\ [][(ret'.op = "updateCheckStatus" /\ ret'.error = "none")
          => \E key \in {RetKey'} :
               (now - PR_STATE'[key].timestamp >= 300000
                  <=> now - PR_STATE[key].timestamp >= 300000)]_vars

\* A check admitted at 0 has just been completed at 300000: its cooldown is
\* already over.
C20_Witness ==
    /\ ret.op = "updateCheckStatus"
    /\ ret.error = "none"
    /\ PR_STATE[RetKey].status = "completed"
    /\ now = 300000
    /\ PR_STATE[RetKey].timestamp = 0

----------------------------------------------------------------------------
(* Properties of the rate limiter (SpecRate) *)

\* The counter as a call made now would load it
Counter == getRateLimitState(PR_STATE["rate_limit"], now)

\* C11: within one 60-second window a checkRateLimit whose estimate does not
\* reach the input budget succeeds while fewer than five calls have
\* succeeded (and counts itself), a call after five successes fails with the
\* request-limit error, and a call 60 seconds or more after the window start
\* succeeds and leaves the counter at requestCount = 1, inputTokens = its
\* estimate, outputTokens = 0.
C11_FivePerWindowThenReset ==
    [][ret'.op = "checkRateLimit"
       => LET e == ret'.tokenCount
              inWindow == now - Counter.timestamp < 60000
          IN  /\ (inWindow /\ Counter.requestCount < 5
                      /\ Counter.inputTokens + e < 10000)
                  => /\ ret'.error = "none"
                     /\ PR_STATE'["rate_limit"].requestCount
                            = Counter.requestCount + 1
              /\ (inWindow /\ Counter.requestCount >= 5)
                  => ret'.error = RequestLimitError
              /\ (~inWindow /\ e < 10000)
                  => /\ ret'.error = "none"
                     /\ PR_STATE'["rate_limit"]
                            = [requestCount |-> 1, inputTokens |-> e,
                               outputTokens |-> 0, timestamp |-> now]]_vars

\* A call made exactly 60000 ms after the start of a window in which five
\* calls had succeeded and output had been recorded: it succeeded, and the
\* counter reflects it alone.
C11_Witness ==
    /\ ret.op = "checkRateLimit"
    /\ ret.error = "none"
    /\ ret.read.requestCount = 5
    /\ ret.read.outputTokens > 0
    /\ now - ret.read.timestamp = 60000
    /\ PR_STATE["rate_limit"]
          = [requestCount |-> 1, inputTokens |-> ret.tokenCount,
             outputTokens |-> 0, timestamp |-> now]

\* C12 (as claimed): when the output tokens of a completed call bring
\* outputTokens to 2000 or more, the rate-limit error is raised and the
\* stored counter holds the increased outputTokens total.
C12_OutputPersistsOnFailure ==
    [][(/\ ret'.op = "recordOutput"
        /\ Counter.outputTokens + ret'.tokenCount >= 2000)
       => /\ ret'.error = OutputLimitError
          /\ PR_STATE'["rate_limit"] # Null
          /\ PR_STATE'["rate_limit"].outputTokens
                = Counter.outputTokens + ret'.tokenCount]_vars

\* C13: a checkRateLimit that fails on the request budget or on the
\* input-token budget leaves the stored counter as it was, also when the call
\* had reset the copy it loaded.
C13_FailedCheckWritesNothing ==
    [][(ret'.op = "checkRateLimit" /\ ret'.error # "none")
       => PR_STATE' = PR_STATE]_vars

\* A call failed on the input budget after its loaded copy had been reset:
\* the stored counter is still the one of the elapsed window.
C13_Witness ==
    /\ ret.op = "checkRateLimit"
    /\ ret.error = InputLimitError
    /\ PR_STATE["rate_limit"] # Null
    /\ now - PR_STATE["rate_limit"].timestamp >= 60000
    /\ PR_STATE["rate_limit"].requestCount = 5

\* The counter a checkRateLimit that loads `read` at time t checks its
\* limits against
Window(read, t) ==
    IF t - read.timestamp >= 60000
    THEN [requestCount |-> 0, inputTokens |-> 0, outputTokens |-> 0,
          timestamp |-> t]
    ELSE read

\* C24: after the window reset (if due), checkRateLimit(e) succeeds exactly
\* when requestCount < 5 and inputTokens + e < 10000, so a call that would
\* bring inputTokens to exactly 10000 fails; on success the stored counter
\* has requestCount increased by exactly 1, inputTokens increased by exactly
\* e, and outputTokens unchanged.
C24_SucceedsExactlyUnderLimits ==
    [][ret'.op = "checkRateLimit"
       => LET e == ret'.tokenCount
              w == Window(ret'.read, now)
          IN  /\ ret'.error = "none"
                    <=> (w.requestCount < 5 /\ w.inputTokens + e < 10000)
              /\ (w.requestCount < 5 /\ w.inputTokens + e = 10000)
                    => ret'.error = InputLimitError
              /\ ret'.error = "none"
                    => PR_STATE'["rate_limit"]
                          = [requestCount |-> w.requestCount + 1,
                             inputTokens |-> w.inputTokens + e,
                             outputTokens |-> w.outputTokens,
                             timestamp |-> w.timestamp]]_vars

\* A call, not the first in its window, succeeded and was added to the
\* window's requests and input tokens; the output tokens stayed.
C24_Witness ==
    /\ ret.op = "checkRateLimit"
    /\ ret.error = "none"
    /\ now - ret.read.timestamp < 60000
    /\ ret.read.outputTokens > 0
    /\ PR_STATE["rate_limit"].requestCount = ret.read.requestCount + 1
    /\ PR_STATE["rate_limit"].requestCount > 1
    /\ PR_STATE["rate_limit"].inputTokens
          = ret.read.inputTokens + ret.tokenCount
    /\ PR_STATE["rate_limit"].inputTokens = 5001
    /\ PR_STATE["rate_limit"].outputTokens = ret.read.outputTokens

\* C25: a checkRateLimit that runs 60000 ms or more after the window start
\* checks its limits against a window with all three counts zero and the
\* start at now, and counts itself in that window; at 60000 ms exactly the
\* reset happens, at 59999 ms it does not.
C25_ResetBeforeLimitsAndIncrement ==
    [][ret'.op = "checkRateLimit"
       => LET e == ret'.tokenCount
              read == ret'.read
              elapsed == now - read.timestamp
          IN  /\ elapsed >= 60000
                   => /\ ret'.error = "none" <=> e < 10000
                      /\ ret'.error # RequestLimitError
                      /\ ret'.error = "none"
                           => PR_STATE'["rate_limit"]
                                 = [requestCount |-> 1, inputTokens |-> e,
                                    outputTokens |-> 0, timestamp |-> now]
              /\ elapsed < 60000
                   => /\ read.requestCount >= 5
                           => ret'.error = RequestLimitError
                      /\ ret'.error = "none"
                           => /\ PR_STATE'["rate_limit"].timestamp
                                    = read.timestamp
                              /\ PR_STATE'["rate_limit"].requestCount
                                    = read.requestCount + 1
                              /\ PR_STATE'["rate_limit"].outputTokens
                                    = read.outputTokens]_vars

\* A call was refused 59999 ms after the start of a window that had its five
\* requests: no reset yet.
C25_Witness ==
    /\ ret.op = "checkRateLimit"
    /\ ret.error = RequestLimitError
    /\ now - ret.read.timestamp = 59999
    /\ ret.read.requestCount = 5

\* C27: recording output tokens performs no window reset: it adds the
\* estimate to the outputTokens it loaded and leaves windowStart,
\* requestCount and inputTokens as loaded, also when the window has elapsed;
\* the old window's total keeps growing until a successful checkRateLimit
\* resets it.
C27_RecordOutputNeverResets ==
    [][/\ ret'.op = "recordOutput"
          => /\ ret'.error = "none"
                  => PR_STATE'["rate_limit"]
                        = [ret'.read EXCEPT
                              !.outputTokens = @ + ret'.tokenCount]
             /\ ret'.error # "none" => PR_STATE' = PR_STATE
       /\ (/\ PR_STATE["rate_limit"] # Null
           /\ PR_STATE'["rate_limit"] # Null
           /\ PR_STATE'["rate_limit"].timestamp
                 # PR_STATE["rate_limit"].timestamp)
          => /\ ret'.op = "checkRateLimit"
             /\ ret'.error = "none"
             /\ PR_STATE'["rate_limit"].outputTokens = 0]_vars

\* Output was recorded more than 60 seconds after the window start, on top
\* of the output already counted in that window.
C27_Witness ==
    /\ ret.op = "recordOutput"
    /\ ret.error = "none"
    /\ now - PR_STATE["rate_limit"].timestamp > 60000
    /\ ret.read.outputTokens > 0
    /\ PR_STATE["rate_limit"].outputTokens
          = ret.read.outputTokens + ret.tokenCount
    /\ PR_STATE["rate_limit"].requestCount = ret.read.requestCount
    /\ PR_STATE["rate_limit"].requestCount > 0

\* C32: with one call at a time, the stored counter always has
\* requestCount <= 5, inputTokens < 10000 and outputTokens < 2000.
C32_StoredCounterWithinLimits ==
    PR_STATE["rate_limit"] # Null
    => /\ PR_STATE["rate_limit"].requestCount <= 5
       /\ PR_STATE["rate_limit"].inputTokens < 10000
       /\ PR_STATE["rate_limit"].outputTokens < 2000

\* The fifth request of a window was counted, with input and output
\* tokens counted beside it, each one more admission short of its budget.
C32_Witness ==
    /\ PR_STATE["rate_limit"] # Null
    /\ PR_STATE["rate_limit"].requestCount = 5
    /\ PR_STATE["rate_limit"].inputTokens > 5000
    /\ PR_STATE["rate_limit"].outputTokens = 1500

----------------------------------------------------------------------------
(* Properties of the shared store (SpecShared) *)

\* C23: cleanOldChecks reads and deletes only keys with the prefix 'queue:':
\* the 'rate_limit' counter, like every other key of the store, is the same
\* after a sweep as before it, whatever its age.
C23_SweepStaysInQueueNamespace ==
    [][ret'.op = "cleanOldChecks"
       => /\ \A i \in 1..Len(ret'.list) : StartsWith(ret'.list[i], "queue:")
          /\ \A k \in StoreKeys :
                PR_STATE'[k] # PR_STATE[k] => StartsWith(k, "queue:")]_vars

\* A sweep deleted a check record while a counter older than the record
\* that went stayed in the store.
C23_Witness ==
    /\ ret.op = "cleanOldChecks"
    /\ PR_STATE["rate_limit"] # Null
    /\ now - PR_STATE["rate_limit"].timestamp > staleAge
    /\ \E i \in 1..Len(ret.list) : PR_STATE[ret.list[i]] = Null

----------------------------------------------------------------------------
(* Properties of concurrent rate-limited runs (SpecRateConc) *)

\* The stored counter before and after a step belong to one window
SameWindow ==
    /\ PR_STATE["rate_limit"] # Null
    /\ PR_STATE'["rate_limit"] # Null
    /\ PR_STATE'["rate_limit"].timestamp = PR_STATE["rate_limit"].timestamp

\* C26: within one window (stored windowStart unchanged), the stored
\* requestCount, inputTokens and outputTokens never decrease, in every
\* interleaving of the gets and puts of concurrent runs.
C26_CountsNeverDecreaseInWindow ==
    [][SameWindow
       => /\ PR_STATE'["rate_limit"].requestCount
                >= PR_STATE["rate_limit"].requestCount
          /\ PR_STATE'["rate_limit"].inputTokens
                >= PR_STATE["rate_limit"].inputTokens
          /\ PR_STATE'["rate_limit"].outputTokens
                >= PR_STATE["rate_limit"].outputTokens]_vars

\* C28: the counter is read-modify-written atomically per call attempt, so
\* the stored requestCount is the number of calls that succeeded in the
\* window and never more than 5 succeed: every checkRateLimit that succeeds
\* in the window of the stored counter finds fewer than 5 requests stored
\* and leaves exactly one more.
C28_EverySuccessIsCounted ==
    [][(ret'.op = "checkRateLimit" /\ ret'.error = "none" /\ SameWindow)
       => /\ PR_STATE["rate_limit"].requestCount < 5
          /\ PR_STATE'["rate_limit"].requestCount
                = PR_STATE["rate_limit"].requestCount + 1]_vars

----------------------------------------------------------------------------
(* Properties of concurrent handler invocations (SpecConc) *)

\* enqueueCheck has just returned isNew = true to invocation h
JustAdmitted(h) ==
    hand[h].pc = "upd_get" /\ hand[h].args.status = "processing"

\* The step in which h's enqueueCheck puts its new check
AdmitStep(h) ==
    hand[h].pc = "enq_put" /\ hand'[h].pc = "upd_get"

\* The step in which the delete issued by h's sweep takes effect
DeleteStep(h) ==
    swp[h].pc = "delete" /\ swp'[h].pc # "delete"

SweepKey(h) == swp[h].keys[swp[h].i]

\* C5 (as claimed): in every interleaving of enqueueCheck calls on one key at
\* most one call returns isNew = true while the key has no terminal record,
\* and the runner never runs twice at once for the key.
C5_OneInFlightPerKey ==
    \A h1, h2 \in Handlers :
        (h1 # h2 /\ hand[h1].pc # "idle" /\ hand[h2].pc # "idle"
            /\ HKey(h1) = HKey(h2))
        => /\ ~(JustAdmitted(h1) /\ JustAdmitted(h2))
           /\ ~(hand[h1].pc = "run" /\ hand[h2].pc = "run")

\* C5 (amended): enqueueCheck returns isNew = true only over the record its
\* get returned being absent or terminal; if the key still holds that record
\* when the call puts, the call replaces no pending or processing record.
C5_AdmitsOverIdleOrTerminal ==
    [][\A h \in Handlers :
          (AdmitStep(h) /\ PR_STATE[HKey(h)] = hand[h].existing)
          => ~InFlight(PR_STATE[HKey(h)])]_vars

\* One invocation was admitted over a record that had completed; the other,
\* arriving while that check is in flight, is turned away.
C5_Witness ==
    \E h1, h2 \in Handlers :
        /\ hand[h1].pc = "run"
        /\ hand[h2].pc = "reject"
        /\ hand[h2].message = [kind |-> "in_progress", status |-> "processing"]
        /\ HKey(h1) = HKey(h2)
        /\ PR_STATE[HKey(h1)].timestamp > 0

\* C9 (as claimed): in every interleaving of a sweep with an admission on the
\* same key, the sweep never deletes a record that is less than one hour old.
C9_SweepSparesFreshRecords ==
    [][\A h \in Handlers :
          DeleteStep(h)
          => \/ PR_STATE[SweepKey(h)] = Null
             \/ now - PR_STATE[SweepKey(h)].timestamp >= 3600000]_vars

\* C9 (amended): the sweep deletes a record that is less than one hour old
\* only when that record was put between the sweep's get of the key and its
\* delete; a record the sweep itself read is deleted only when stale.
C9_SweepDeletesFreshOnlyIfUnread ==
    [][\A h \in Handlers :
          DeleteStep(h)
          => \/ PR_STATE[SweepKey(h)] = Null
             \/ now - PR_STATE[SweepKey(h)].timestamp >= 3600000
             \/ PR_STATE[SweepKey(h)].timestamp # swp[h].readTimestamp]_vars

\* A sweep's delete has taken effect between the get and the put of an
\* admission on the same key.
C9_Witness ==
    \E h1, h2 \in Handlers :
        /\ swp[h1].pc = "get"
        /\ swp[h1].i = 2
        /\ PR_STATE[swp[h1].keys[1]] = Null
        /\ hand[h2].pc = "enq_put"
        /\ hand[h2].existing # Null
        /\ HKey(h2) = swp[h1].keys[1]

\* The step in which an invocation that was admitted runs to its end: its
\* last updateCheckStatus returns or throws
EndStep(h) ==
    hand[h].pc = "upd_put" /\ hand'[h].pc = "idle"

\* C15 (as claimed): when an invocation whose enqueueCheck returned
\* isNew = true runs to its end, the record under its key is 'completed' if
\* the runner and the result comment both succeeded and 'failed' otherwise.
C15_AdmittedCheckEndsTerminal ==
    [][\A h \in Handlers :
          EndStep(h)
          => /\ PR_STATE'[HKey(h)] # Null
             /\ PR_STATE'[HKey(h)].status = hand[h].args.status
             /\ Terminal(PR_STATE'[HKey(h)])]_vars

\* C15 (amended): the last updateCheckStatus of such an invocation writes
\* 'completed' (after the runner and the comment succeeded) or 'failed'
\* (after anything threw) over the record it read; when the key held no
\* record for it to read, it throws and writes nothing.
C15_EndsTerminalUnlessDeleted ==
    [][\A h \in Handlers :
          EndStep(h)
          => IF hand[h].existing = Null
             THEN hand[h].args.status = "failed" /\ PR_STATE' = PR_STATE
             ELSE /\ PR_STATE'[HKey(h)] # Null
                  /\ PR_STATE'[HKey(h)].status = hand[h].args.status
                  /\ Terminal(PR_STATE'[HKey(h)])
                  /\ (hand[h].args.status = "completed"
                         <=> hand[h].args.result = Comment)]_vars

\* An invocation whose record a sweep had deleted is about to end: the
\* updateCheckStatus of its catch block has found no record either.
C15_Witness ==
    \E h \in Handlers :
        /\ hand[h].pc = "upd_put"
        /\ hand[h].args = [status |-> "failed", result |-> NotFound]
        /\ hand[h].existing = Null
        /\ PR_STATE[HKey(h)] = Null

\* The status stored under a key ("absent": no record)
StoredStatus(text) == IF text = Null THEN "absent" ELSE text.status

\* The arrows of the state machine
MachineArrows ==
    {<<"absent", "pending">>, <<"pending", "processing">>,
     <<"processing", "completed">>, <<"processing", "failed">>,
     <<"completed", "pending">>, <<"failed", "pending">>}

\* The step in which h's updateCheckStatus puts the record
UpdateStep(h) ==
    /\ hand[h].pc = "upd_put"
    /\ hand[h].existing # Null
    /\ hand'[h] # hand[h]

\* C21 (as claimed): the status stored under a key changes only along the
\* state machine, or by a sweep's delete; every status an invocation writes
\* is written over its predecessor in the machine, so 'processing' is never
\* written over 'completed', 'failed' or 'processing'.
C21_StatusFollowsStateMachine ==
    [][/\ \A k \in QueueKeys :
            \/ StoredStatus(PR_STATE'[k]) = StoredStatus(PR_STATE[k])
            \/ <<StoredStatus(PR_STATE[k]), StoredStatus(PR_STATE'[k])>>
                  \in MachineArrows
            \/ /\ PR_STATE'[k] = Null
               /\ \E h \in Handlers : DeleteStep(h) /\ SweepKey(h) = k
       /\ \A h \in Handlers :
            /\ AdmitStep(h)
                 => <<StoredStatus(PR_STATE[HKey(h)]), "pending">>
                       \in MachineArrows
            /\ UpdateStep(h)
                 => <<StoredStatus(PR_STATE[HKey(h)]), hand[h].args.status>>
                       \in MachineArrows]_vars

\* C21 (amended): each invocation writes its statuses in the order of the
\* machine: 'pending' at its admission, only after reading the key absent
\* or terminal with the cooldown over; then 'processing'; then 'completed'
\* (runner and comment succeeded) or 'failed'. The status under a key
\* changes only by these writes and by a sweep's delete. updateCheckStatus
\* writes over whatever record its get returned and does not look at the
\* status stored when it puts.
C21_InvocationsWriteInMachineOrder ==
    [][/\ \A k \in QueueKeys :
            StoredStatus(PR_STATE'[k]) # StoredStatus(PR_STATE[k])
            => \E h \in Handlers :
                  \/ /\ AdmitStep(h) /\ HKey(h) = k
                     /\ PR_STATE'[k].status = "pending"
                  \/ /\ UpdateStep(h) /\ HKey(h) = k
                     /\ PR_STATE'[k] # Null
                     /\ PR_STATE'[k].status = hand[h].args.status
                  \/ /\ DeleteStep(h) /\ SweepKey(h) = k
                     /\ PR_STATE'[k] = Null
       /\ \A h \in Handlers :
            /\ AdmitStep(h)
                 => \/ hand[h].existing = Null
                    \/ /\ Terminal(hand[h].existing)
                       /\ now - hand[h].existing.timestamp >= 300000
            /\ (hand'[h].pc = "upd_get" /\ hand'[h] # hand[h])
                 => \/ /\ hand'[h].args.status = "processing"
                       /\ AdmitStep(h)
                    \/ /\ hand'[h].args.status = "completed"
                       /\ hand[h].pc = "comment"
                    \/ /\ hand'[h].args.status = "failed"
                       /\ \/ hand[h].pc \in {"run", "comment"}
                          \/ /\ hand[h].pc = "upd_put"
                             /\ hand[h].args.status # "failed"
            /\ (hand'[h].pc \in {"run", "comment"} /\ hand'[h] # hand[h])
                 => \/ hand[h].pc = "run" /\ hand'[h].pc = "comment"
                    \/ /\ hand[h].pc = "upd_put" /\ hand'[h].pc = "run"
                       /\ hand[h].args.status = "processing"
                       /\ hand[h].existing # Null]_vars

\* A key went once round the machine and was admitted again: the record of
\* the second check, admitted an hour after the first, is completed.
C21_Witness ==
    /\ \A h \in Handlers : hand[h].pc = "idle"
    /\ \E k \in QueueKeys :
          /\ PR_STATE[k] # Null
          /\ PR_STATE[k].status = "completed"
          /\ PR_STATE[k].result = Comment
          /\ PR_STATE[k].timestamp = 3600001

\* C22 (as claimed): in every reachable state a stored record with status
\* 'pending' or 'processing' has no result.
C22_InFlightHasNoResult ==
    \A k \in QueueKeys :
        InFlight(PR_STATE[k]) => ~HasProp(PR_STATE[k], "result")

\* C22 (amended): a stored 'pending' record never has a result: an
\* admission stores a fresh record that carries nothing over. The write of
\* 'processing' sets no result and removes none: the record it puts has a
\* result exactly when the record its get returned had one.
C22_AdmissionAndProcessingSetNoResult ==
    /\ [](\A k \in QueueKeys :
            (PR_STATE[k] # Null /\ PR_STATE[k].status = "pending")
            => ~HasProp(PR_STATE[k], "result"))
    /\ [][\A h \in Handlers :
            /\ AdmitStep(h) => ~HasProp(PR_STATE'[HKey(h)], "result")
            /\ (UpdateStep(h) /\ hand[h].args.status = "processing")
                 => /\ HasProp(PR_STATE'[HKey(h)], "result")
                         = HasProp(hand[h].existing, "result")
                    /\ HasProp(hand[h].existing, "result")
                         => PR_STATE'[HKey(h)].result
                               = hand[h].existing.result]_vars

\* An invocation has just been admitted over a completed record that had a
\* result (the other invocation still holds it): the new record has none.
C22_Witness ==
    \E h1, h2 \in Handlers :
        /\ JustAdmitted(h1)
        /\ PR_STATE[HKey(h1)] # Null
        /\ PR_STATE[HKey(h1)].status = "pending"
        /\ ~HasProp(PR_STATE[HKey(h1)], "result")
        /\ hand[h2].pc = "enq_put"
        /\ HKey(h2) = HKey(h1)
        /\ Terminal(hand[h2].existing)
        /\ HasProp(hand[h2].existing, "result")

C34_InterleavedSweepsRaiseNoError ==
    \A h \in Handlers : swp[h].pc # "error"

----------------------------------------------------------------------------
(* Properties of invocations with comments of their own (SpecOwn) *)

\* C35: the terminal updateCheckStatus of a handler modifies only the
\* record its own admission created: where it finds the record of a later
\* admission (its own deleted by a sweep, the key admitted again), the
\* status and result of that record stay as they are.
C35_TerminalUpdateSparesLaterCheck ==
    [][\A h \in Handlers :
          (/\ hand[h].pc = "upd_put"
           /\ hand[h].args.status \in {"completed", "failed"}
           /\ hand'[h] # hand[h]
           /\ hand[h].existing # Null
           /\ hand[h].existing.commentId # hand[h].job.commentId)
          => /\ PR_STATE'[HKey(h)] # Null
                => /\ PR_STATE'[HKey(h)].status = hand[h].existing.status
                   /\ HasProp(PR_STATE'[HKey(h)], "result")
                         = HasProp(hand[h].existing, "result")
             /\ PR_STATE' = PR_STATE]_vars

----------------------------------------------------------------------------
(* Properties of the rate-limited runner inside the handler (SpecRun) *)

RateLimitErrors == {RequestLimitError, InputLimitError, OutputLimitError}

\* Invocation h is in the updateCheckStatus(job, "failed", message) of its
\* catch block, the message being a rate-limit error
Aborting(h) ==
    /\ hand[h].pc \in {"upd_get", "upd_put"}
    /\ hand[h].args.status = "failed"
    /\ hand[h].args.result \in RateLimitErrors

\* A rate-limit error in the runner of invocation h takes it to the catch
\* block with the error's message: not on to the LLM request, not to the
\* result comment
AbortsOnRateLimit(h) ==
    (/\ hand[h].pc \in {"run", "llm"}
     /\ ret'.op \in {"checkRateLimit", "recordOutput"}
     /\ ret'.error # "none")
    => /\ ret'.error \in RateLimitErrors
       /\ hand'[h] = [pc |-> "upd_get", job |-> hand[h].job,
                      args |-> [status |-> "failed", result |-> ret'.error]]

\* The catch block of invocation h only gets and puts the record, then the
\* invocation ends
CatchOnlyUpdates(h) ==
    (Aborting(h) /\ hand'[h] # hand[h])
    => \/ /\ hand[h].pc = "upd_get"
          /\ hand'[h].pc = "upd_put"
          /\ hand'[h].args = hand[h].args
       \/ /\ hand[h].pc = "upd_put"
          /\ hand'[h] = IdleHandler

\* C29 (as claimed): when checkRateLimit or the output-token recording
\* fails with a rate-limit error during an admitted check, the attempt is
\* aborted, no result comment is posted, the LLM request is not sent after
\* a failed checkRateLimit, and when the handler ends the check is recorded
\* as 'failed' with the error message as its result.
C29_RateLimitRecordedAsFailed ==
    [][\A h \in RunHandlers :
          /\ AbortsOnRateLimit(h)
          /\ CatchOnlyUpdates(h)
          /\ (Aborting(h) /\ hand'[h] = IdleHandler)
             => /\ PR_STATE'[HKey(h)] # Null
                /\ PR_STATE'[HKey(h)].status = "failed"
                /\ PR_STATE'[HKey(h)].result = hand[h].args.result]_vars

\* C29 (amended): as claimed, but the check is recorded as 'failed' with
\* the message over the record the last updateCheckStatus found; if no
\* record is under the key any more, nothing is written.
C29_RateLimitAbortsTheCheck ==
    [][\A h \in RunHandlers :
          /\ AbortsOnRateLimit(h)
          /\ CatchOnlyUpdates(h)
          /\ (Aborting(h) /\ hand'[h] = IdleHandler)
             => IF hand[h].existing # Null
                THEN /\ PR_STATE'[HKey(h)] # Null
                     /\ PR_STATE'[HKey(h)].status = "failed"
                     /\ PR_STATE'[HKey(h)].result = hand[h].args.result
                     /\ PR_STATE'[HKey(h)].timestamp
                           = hand[h].existing.timestamp
                ELSE PR_STATE' = PR_STATE]_vars

\* An invocation whose checkRateLimit was refused has ended: its check is
\* recorded as failed with the message, and no output was ever accounted.
C29_Witness ==
    /\ hand[1] = IdleHandler
    /\ \E k \in QueueKeys :
          /\ PR_STATE[k] # Null
          /\ PR_STATE[k].status = "failed"
          /\ PR_STATE[k].result = InputLimitError
    /\ PR_STATE["rate_limit"] = Null

----------------------------------------------------------------------------
(* Properties of the webhook handlers (SpecHook) *)

\* C14: a store failure inside enqueueCheck never gives a partial
\* admission: enqueueCheck returns isNew = true only with its new record
\* stored; when its get or its put fails the request ends with status 500,
\* nothing is stored, and the runner, which starts only after
\* updateCheckStatus found the record, is not invoked.
C14_NoPartialAdmission ==
    /\ [][\A h \in HookHandlers :
            AdmitStep(h)
            => FreshRecord(PR_STATE'[HKey(h)], hand[h].job, now)]_vars
    /\ [][\A h \in HookHandlers :
            (hand[h].pc \in {"enq_get", "enq_put"}
                /\ hand'[h] # hand[h]
                /\ hand'[h].pc \notin {"enq_put", "reject", "upd_get"})
            => /\ hand'[h].pc = "idle"
               /\ ret'.op = "fetchFailed"
               /\ ret'.response.status = 500
               /\ PR_STATE' = PR_STATE]_vars
    /\ [][\A h \in HookHandlers :
            (hand'[h].pc = "run" /\ hand[h].pc # "run")
            => (hand[h].pc = "upd_put" /\ hand[h].existing # Null)]_vars

\* The put of a re-admission failed: the request ended with 500 and the key
\* still holds the old record, its cooldown over.
C14_Witness ==
    /\ ret.op = "fetchFailed"
    /\ ret.call = "enqueueCheck put"
    /\ ret.response.status = 500
    /\ \A h \in HookHandlers : hand[h].pc = "idle"
    /\ Terminal(PR_STATE[getQueueKey(ret.job)])
    /\ now - PR_STATE[getQueueKey(ret.job)].timestamp >= cooldownPeriod

\* The signature header of the request is missing, or is not "sha256="
\* followed by the HMAC-SHA256, under the configured secret, of the payload
\* as the handler takes it: the body as sent (store-based handler), the body
\* parsed and written out again (queue-based handler)
BadSignature(handler, req) ==
    \/ req.signature = Null
    \/ /\ handler = "store"
       /\ req.signature.value
             # Sha256Header(HmacSha256(WEBHOOK_SECRET, req.body))
    \/ /\ handler = "queue"
       /\ IsJson(req.body)
       /\ req.signature.value
             # Sha256Header(HmacSha256(WEBHOOK_SECRET,
                                       BodyText(req.body.json, "compact")))

NoEffect == UNCHANGED <<PR_STATE, PR_QUEUE, hand, swp>>

\* C16 (as claimed): a request whose signature is missing or wrong is
\* answered 401 'Invalid signature' and causes no queue send, no admission,
\* no runner invocation and no store write.
C16_BadSignatureIs401 ==
    [][(ret'.op = "fetch" /\ BadSignature(ret'.handler, ret'.request))
       => /\ ret'.response = Response(401, "Invalid signature")
          /\ NoEffect]_vars

\* C16 (amended): such a request causes no queue send, no admission, no
\* runner invocation and no store write; the store-based handler answers it
\* 401, the queue-based handler answers it 405 when it is not a POST, 400
\* when a required header (the signature header included) is missing, and
\* 401 otherwise; a body that is not JSON gives the queue-based handler no
\* payload to verify, and it answers 500 once method and headers passed.
C16_BadSignatureIsRejected ==
    [][(/\ ret'.op = "fetch"
        /\ \/ BadSignature(ret'.handler, ret'.request)
           \/ ret'.handler = "queue" /\ ~IsJson(ret'.request.body))
       => /\ NoEffect
          /\ ret'.handler = "store"
                => ret'.response = Response(401, "Invalid signature")
          /\ ret'.handler = "queue"
                => ret'.response.status =
                      IF ret'.request.method # "POST" THEN 405
                      ELSE IF \/ ret'.request.event = Null
                              \/ ret'.request.signature = Null
                              \/ ~ret'.request.delivery THEN 400
                      ELSE IF ~IsJson(ret'.request.body) THEN 500
                      ELSE 401]_vars

\* With a job in the queue and a record in the store, a POST request with
\* all its headers, signed with another secret, was answered 401 by the
\* queue-based handler.
C16_Witness ==
    /\ ret.op = "fetch"
    /\ ret.handler = "queue"
    /\ ret.request.method = "POST"
    /\ ret.request.signature
          = Signed(OtherSecret, BodyText(CommandOnPR, "compact"))
    /\ ret.response = Response(401, "Invalid signature")
    /\ Len(PR_QUEUE) = 1
    /\ \E k \in QueueKeys : PR_STATE[k] # Null

\* The request has the three required headers
AllHeaders(req) ==
    req.event # Null /\ req.signature # Null /\ req.delivery

----------------------------------------------------------------------------
(* Properties of the keys of the check records (SpecFrame) *)

\* The key of the pull request of a job, written out
KeyOf(repository, prNumber) ==
    "queue:" \o repository \o ":" \o ToString(prNumber)

\* C33: enqueueCheck(J) and updateCheckStatus(J, ...) change nothing but
\* the value under the one key of J's repository and prNumber: every other
\* pull request's record and the 'rate_limit' counter stay as they are,
\* what the call returns is decided by the record under that key, and jobs
\* that differ in repository or prNumber have different keys.
C33_CallsTouchOnlyTheirKey ==
    /\ [](\A j1, j2 \in FrameJobs :
            (j1.repository # j2.repository \/ j1.prNumber # j2.prNumber)
            => getQueueKey(j1) # getQueueKey(j2))
    /\ [][ret'.op \in {"enqueueCheck", "updateCheckStatus"}
          => LET key == KeyOf(ret'.job.repository, ret'.job.prNumber)
             IN  /\ key \in DOMAIN PR_STATE
                 /\ \A k \in DOMAIN PR_STATE \ {key} :
                       PR_STATE'[k] = PR_STATE[k]
                 /\ PR_STATE'[key] # Null
                       => /\ PR_STATE'[key].repository = ret'.job.repository
                          /\ PR_STATE'[key].prNumber = ret'.job.prNumber
                 /\ ret'.op = "enqueueCheck"
                       => (ret'.isNew <=> PR_STATE'[key] # PR_STATE[key])
                 /\ ret'.op = "updateCheckStatus"
                       => (ret'.error = "none" <=> PR_STATE[key] # Null)]_vars

\* A check of one pull request was completed while the store held the
\* pending checks of the other pull requests, one of them with the same
\* number, and a counter.
C33_Witness ==
    /\ ret.op = "updateCheckStatus"
    /\ ret.error = "none"
    /\ ret.job.repository = "acme/repo" /\ ret.job.prNumber = 42
    /\ PR_STATE[KeyOf("acme/repo", 42)].status = "completed"
    /\ \A t \in FrameTargets \ {<<"acme/repo", 42>>} :
          /\ PR_STATE[KeyOf(t[1], t[2])] # Null
          /\ PR_STATE[KeyOf(t[1], t[2])].status = "pending"
    /\ PR_STATE["rate_limit"] # Null

----------------------------------------------------------------------------
(* Properties of the queue consumer (SpecQueue) *)

\* The messages the queue holds or the consumer is working on
Pending ==
    {PR_QUEUE[i] : i \in 1..Len(PR_QUEUE)}
    \cup (IF hand[1].pc = "process" THEN {hand[1].body} ELSE {})

\* C31: a job whose processing fails is sent again, with attempt one
\* higher and nothing else changed, only while its attempt is below 3;
\* every message, processed with or without success, is acknowledged (it
\* leaves the queue for good); so no message ever carries an attempt above
\* 3, and a job that always fails is processed at attempts 0, 1, 2 and 3
\* and then no more.
C31_RetriesAreBounded ==
    /\ [](\A body \in Pending : Attempt(body) <= 3)
    /\ [][hand[1].pc = "process" /\ hand'[1] # hand[1]
          => LET body == hand[1].body
             IN  /\ hand'[1] = IdleHandler
                 /\ ret'.op = "queue" /\ ret'.ack
                 /\ ret'.error = "none" => PR_QUEUE' = PR_QUEUE
                 /\ (ret'.error # "none" /\ Attempt(body) < 3)
                       => PR_QUEUE'
                            = Append(PR_QUEUE,
                                     [p \in DOMAIN body \cup {"attempt"} |->
                                         IF p = "attempt"
                                         THEN Attempt(body) + 1
                                         ELSE body[p]])
                 /\ (ret'.error # "none" /\ Attempt(body) >= 3)
                       => PR_QUEUE' = PR_QUEUE]_vars

\* The fourth processing of a job has failed: the message was acknowledged
\* and nothing was sent in its place.
C31_Witness ==
    /\ ret.op = "queue"
    /\ ret.error # "none"
    /\ ret.ack
    /\ Attempt(ret.body) = 3
    /\ PR_QUEUE = <<>>
    /\ hand[1] = IdleHandler

----------------------------------------------------------------------------
(* Recovery of a key whose check never ends (SpecLive) *)

\* The key holds a pending or processing record more than one hour old
StaleInFlight(k) ==
    InFlight(PR_STATE[k]) /\ now - PR_STATE[k].timestamp > staleAge

\* enqueueCheck has just returned isNew = true for key k
Readmitted(k) ==
    \E h \in Handlers : JustAdmitted(h) /\ HKey(h) = k

\* The key holds a record less than one hour old: its timestamp is the time
\* of an enqueueCheck that returned isNew = true after the stale record's
NewerRecord(k) ==
    PR_STATE[k] # Null /\ now - PR_STATE[k].timestamp <= staleAge

\* C10: while commands keep arriving, a record that stays 'pending' or
\* 'processing' does not stay under its key once it is more than one hour
\* old: it is eventually deleted (if no update or racing admission has
\* rewritten it first), and a later enqueueCheck for the key returns
\* isNew = true (or has returned it already, a write of the old check having
\* brought the old record back over the newer one for a while); an
\* enqueueCheck whose get returned a pending or processing record, however
\* old, never returns isNew = true.
C10_StaleCheckIsRecovered ==
    /\ \A k \in QueueKeys : StaleInFlight(k) ~> ~StaleInFlight(k)
    /\ \A k \in QueueKeys :
          StaleInFlight(k) ~> (Readmitted(k) \/ NewerRecord(k))
    /\ [][\A h \in Handlers :
            (hand[h].pc = "enq_put" /\ InFlight(hand[h].existing))
            => hand'[h].pc \in {"enq_put", "reject"}]_vars

\* A command arrived over a processing record more than one hour old: its
\* enqueueCheck was turned away, and the sweep it started has read the
\* record and issued its delete.
C10_Witness ==
    \E h \in Handlers :
        /\ hand[h].pc = "reject"
        /\ hand[h].message = [kind |-> "in_progress", status |-> "processing"]
        /\ StaleInFlight(HKey(h))
        /\ swp[h].pc = "delete"
        /\ SweepKey(h) = HKey(h)
        /\ swp[h].readTimestamp = PR_STATE[HKey(h)].timestamp

====
